---- MODULE Spec2Model ----
(***************************************************************************)
(* Conversation state machine and document-collection pipeline of the      *)
(* WhatsApp recruitment bot.                                               *)
(*                                                                         *)
(* The repository holds two generations of the applicant webhook:          *)
(*   "titles": the consent / selfie / location / job-title flow            *)
(*             (the last handler of src/unnamed/part_002, lines 1707 on),  *)
(*   "levels": the experience-level flow                                   *)
(*             (src/app/api/whatsapp/webhook/route.ts).                    *)
(* The variable flow records which of the two is deployed; it never        *)
(* changes.  Strings typed by the user are sequences of one-character      *)
(* strings so that trimming, lower-casing and validation are computed.     *)
(***************************************************************************)
EXTENDS Integers, Sequences, FiniteSets, TLC

VARIABLES
    flow,        \* which generation of the webhook is deployed
    rows,        \* table whatsapp_conversation_states
    authUsers,   \* Supabase auth users (identity records)
    profiles,    \* table profiles (base profile)
    applicants,  \* table applicant_profiles
    blobs,       \* storage bucket applicant-documents
    documents,   \* table applicant_documents (DocumentRecords)
    ev,          \* log of the inbound event processed last
    faultCount,  \* collaborator failures so far
    manager,     \* which state manager serves the store calls
    now,         \* the clock read by new Date(), in days
    inCall,      \* per caller: the store call it is in the middle of
    ret,         \* log of the store call that returned last
    call,        \* log of the helper function applied last
    roleProfiles,   \* tables client_profiles and provider_profiles
    notifications   \* table notifications (the dispatcher's queue)

vars == <<flow, rows, authUsers, profiles, applicants, blobs, documents, ev,
          faultCount, manager, now, inCall, ret, call, roleProfiles, notifications>>

\* at most this many collaborator calls fail in one behaviour
MaxFaults == 1

\* message.from of every modelled event
From == "27820000001"

-----------------------------------------------------------------------------
(* Characters and the string primitives of JavaScript that the code uses  *)

Whitespace == {" ", "\t", "\n"}

Digits == {"0", "1", "2", "3", "4", "5", "6", "7", "8", "9"}

DigitVal(c) ==
    CASE c = "0" -> 0 [] c = "1" -> 1 [] c = "2" -> 2 [] c = "3" -> 3
      [] c = "4" -> 4 [] c = "5" -> 5 [] c = "6" -> 6 [] c = "7" -> 7
      [] c = "8" -> 8 [] c = "9" -> 9

Upper == <<"A", "B", "C", "D", "E", "F", "G", "H", "I", "J", "K", "L", "M",
           "N", "O", "P", "Q", "R", "S", "T", "U", "V", "W", "X", "Y", "Z">>

Lower == <<"a", "b", "c", "d", "e", "f", "g", "h", "i", "j", "k", "l", "m",
           "n", "o", "p", "q", "r", "s", "t", "u", "v", "w", "x", "y", "z">>

Letters == {Upper[i] : i \in 1..26} \cup {Lower[i] : i \in 1..26}

LowerChar(c) ==
    IF \E i \in 1..26 : Upper[i] = c
    THEN Lower[CHOOSE i \in 1..26 : Upper[i] = c]
    ELSE c

\* String.prototype.toLowerCase
toLowerCase(s) == [i \in 1..Len(s) |-> LowerChar(s[i])]

RECURSIVE TrimStart(_)
TrimStart(s) ==
    IF s # <<>> /\ Head(s) \in Whitespace THEN TrimStart(Tail(s)) ELSE s

RECURSIVE TrimEnd(_)
TrimEnd(s) ==
    IF s # <<>> /\ s[Len(s)] \in Whitespace
    THEN TrimEnd(SubSeq(s, 1, Len(s) - 1))
    ELSE s

\* String.prototype.trim
trim(s) == TrimEnd(TrimStart(s))

IsSpace(c) == c \in Whitespace

NotSpace(c) == c \notin Whitespace

NotAngle(c) == c \notin {"<", ">"}

\* s.replace(/\s/g, '')
StripWhitespace(s) == SelectSeq(s, NotSpace)

\* text.toLowerCase().includes(needle)
includes(s, needle) ==
    \E i \in 1..(Len(s) - Len(needle) + 1) :
        SubSeq(s, i, i + Len(needle) - 1) = needle

\* s.startsWith(prefix)
startsWith(s, prefix) ==
    Len(s) >= Len(prefix) /\ SubSeq(s, 1, Len(prefix)) = prefix

IsDigit(c) == c \in Digits

\* formatPhoneNumber that prefixes the country code without looking at the
\* leading zero
formatPhoneNumber_AlwaysPrefix(phone) ==
    <<"2", "7">> \o SelectSeq(phone, IsDigit)

\* lib/whatsapp/api.ts: strip the non-digits, turn a leading 0 into 27, put
\* 27 in front of what does not start with it
formatPhoneNumber(phone) ==
    LET digits == SelectSeq(phone, IsDigit)
        cleaned == IF startsWith(digits, <<"0">>)
                   THEN <<"2", "7">> \o SubSeq(digits, 2, Len(digits))
                   ELSE digits
    IN IF ~startsWith(cleaned, <<"2", "7">>)
       THEN <<"2", "7">> \o cleaned
       ELSE cleaned

-----------------------------------------------------------------------------
(* Input validators (lib/utils/validation, kept in document-handler.ts)    *)

\* /^[^\s@]+@[^\s@]+\.[^\s@]+$/ tested on the lower-cased address
isValidEmail(email) ==
    LET s == toLowerCase(email) IN
    \E a \in 1..Len(s) :
        /\ s[a] = "@"
        /\ a > 1
        /\ \A i \in 1..Len(s) : s[i] \notin Whitespace /\ (s[i] = "@" => i = a)
        /\ \E d \in (a + 2)..(Len(s) - 1) : s[d] = "."

\* input.trim().replace(/[<>]/g, '')
sanitizeInput(input) == SelectSeq(trim(input), NotAngle)

\* parseInt of a string of decimal digits
RECURSIVE parseInt(_)
parseInt(s) ==
    IF s = <<>> THEN 0
    ELSE 10 * parseInt(SubSeq(s, 1, Len(s) - 1)) + DigitVal(s[Len(s)])

\* LuhnDigit without digit -= 9 for a doubled digit above 9
LuhnDigit_NoFold(cleaned, i) ==
    LET digit == DigitVal(cleaned[i])
        isSecond == (Len(cleaned) - i) % 2 = 1
    IN IF isSecond THEN 2 * digit ELSE digit

\* contribution of the digit at index i (1-based) to the Luhn sum: the loop
\* runs from the last digit and doubles every second one
LuhnDigit(cleaned, i) ==
    LET digit == DigitVal(cleaned[i])
        isSecond == (Len(cleaned) - i) % 2 = 1
        doubled == IF 2 * digit > 9 THEN 2 * digit - 9 ELSE 2 * digit
    IN IF isSecond THEN doubled ELSE digit

RECURSIVE LuhnSum(_, _)
LuhnSum(cleaned, i) ==
    IF i = 0 THEN 0 ELSE LuhnDigit(cleaned, i) + LuhnSum(cleaned, i - 1)

\* isValidSAIDNumber that returns after the date checks
isValidSAIDNumber_NoChecksum(idNumber) ==
    LET cleaned == StripWhitespace(idNumber) IN
    /\ Len(cleaned) = 13
    /\ \A i \in 1..Len(cleaned) : cleaned[i] \in Digits
    /\ LET month == parseInt(SubSeq(cleaned, 3, 4))
           day == parseInt(SubSeq(cleaned, 5, 6))
       IN /\ ~(month < 1 \/ month > 12)
          /\ ~(day < 1 \/ day > 31)

isValidSAIDNumber(idNumber) ==
    LET cleaned == StripWhitespace(idNumber) IN
    /\ Len(cleaned) = 13
    /\ \A i \in 1..Len(cleaned) : cleaned[i] \in Digits
    /\ LET month == parseInt(SubSeq(cleaned, 3, 4))
           day == parseInt(SubSeq(cleaned, 5, 6))
       IN /\ ~(month < 1 \/ month > 12)
          /\ ~(day < 1 \/ day > 31)
    /\ LuhnSum(cleaned, Len(cleaned)) % 10 = 0

\* the date the handler runs on: new Date()
Today == [year |-> 2026, month |-> 11, day |-> 1]

IsLeap(y) == (y % 4 = 0 /\ y % 100 # 0) \/ y % 400 = 0

DaysInMonth(y, m) ==
    IF m = 2 THEN (IF IsLeap(y) THEN 29 ELSE 28)
    ELSE IF m \in {4, 6, 9, 11} THEN 30 ELSE 31

\* new Date(fullYear, month - 1, day): a day past the end of the month
\* rolls over into the next month
NormalizedDate(y, m, d) ==
    IF d > DaysInMonth(y, m)
    THEN [year |-> y, month |-> m + 1, day |-> d - DaysInMonth(y, m)]
    ELSE [year |-> y, month |-> m, day |-> d]

NoIdInfo == [valid |-> FALSE]

parseSAIDNumber(idNumber) ==
    LET cleaned == StripWhitespace(idNumber) IN
    IF ~isValidSAIDNumber(cleaned) THEN NoIdInfo
    ELSE
      LET year == parseInt(SubSeq(cleaned, 1, 2))
          month == parseInt(SubSeq(cleaned, 3, 4))
          day == parseInt(SubSeq(cleaned, 5, 6))
          fullYear == IF year <= 30 THEN 2000 + year ELSE 1900 + year
          birthDate == NormalizedDate(fullYear, month, day)
          monthDiff == Today.month - birthDate.month
          years == Today.year - birthDate.year
      IN [valid |-> TRUE,
          dateOfBirth |-> <<fullYear, month, day>>,
          age |-> IF monthDiff < 0 \/ (monthDiff = 0 /\ Today.day < birthDate.day)
                  THEN years - 1 ELSE years,
          gender |-> IF parseInt(SubSeq(cleaned, 7, 10)) >= 5000
                     THEN "Male" ELSE "Female",
          citizenship |-> IF cleaned[11] = "0"
                          THEN "SA Citizen" ELSE "Permanent Resident"]

\* cleaned.length >= 10 && /[0-9]/.test(cleaned) && /[a-zA-Z]/.test(cleaned)
isValidSAAddress(address) ==
    LET cleaned == trim(address) IN
    /\ Len(cleaned) >= 10
    /\ \E i \in 1..Len(cleaned) : cleaned[i] \in Digits
    /\ \E i \in 1..Len(cleaned) : cleaned[i] \in Letters

\* mocked registry lookup: always a positive match with a fixed name
verifyWithHomeAffairs(idNumber) ==
    [verified |-> TRUE, first_name |-> "Thabo", last_name |-> "Mokwena",
     id_number |-> idNumber]

-----------------------------------------------------------------------------
(* Static catalogs                                                         *)

\* "titles" flow: the job-title catalog (ids shortened to their first group)
JOB_TITLES == <<
    [id |-> "55ffbb89", category |-> "general_worker", title |-> "General Mine Worker",
     required_certificates |-> <<"ID Document", "Medical Certificate">>],
    [id |-> "66bee395", category |-> "general_worker", title |-> "Surface Worker",
     required_certificates |-> <<"ID Document", "Medical Certificate">>],
    [id |-> "e8aff06e", category |-> "general_worker", title |-> "Helper",
     required_certificates |-> <<"ID Document">>],
    [id |-> "9b157f2f", category |-> "semi_skilled", title |-> "Drill Operator",
     required_certificates |-> <<"Drill Operator Certificate", "Medical Certificate">>],
    [id |-> "dd61c9ba", category |-> "semi_skilled", title |-> "Machine Operator",
     required_certificates |-> <<"Machine Operator License", "Safety Certificate">>],
    [id |-> "d0f481ed", category |-> "semi_skilled", title |-> "Winch Operator",
     required_certificates |-> <<"Winch Operator Certificate">>],
    [id |-> "22668ddf", category |-> "semi_skilled", title |-> "Plant Operator",
     required_certificates |-> <<"Plant Operator License">>],
    [id |-> "88cec300", category |-> "skilled", title |-> "Electrician",
     required_certificates |-> <<"Trade Test Certificate", "Wireman License">>],
    [id |-> "5e6d9c95", category |-> "skilled", title |-> "Fitter",
     required_certificates |-> <<"Trade Test Certificate">>],
    [id |-> "78453f90", category |-> "skilled", title |-> "Welder",
     required_certificates |-> <<"Trade Test Certificate", "Welding Certificate">>],
    [id |-> "4d6988f7", category |-> "skilled", title |-> "Boilermaker",
     required_certificates |-> <<"Trade Test Certificate">>],
    [id |-> "dd4a2bd7", category |-> "skilled", title |-> "Diesel Mechanic",
     required_certificates |-> <<"Trade Test Certificate">>],
    [id |-> "bb0e14f4", category |-> "skilled", title |-> "Artisan",
     required_certificates |-> <<"Red Seal / Trade Test">>],
    [id |-> "ba99711e", category |-> "professional", title |-> "Mine Engineer",
     required_certificates |-> <<"Engineering Degree", "Professional Registration">>],
    [id |-> "f76a8ba6", category |-> "professional", title |-> "Safety Officer",
     required_certificates |-> <<"Safety Management Certificate", "SAMTRAC">>],
    [id |-> "6e64ffad", category |-> "professional", title |-> "Mine Supervisor",
     required_certificates |-> <<"Blasting Certificate", "Supervisory Certificate">>],
    [id |-> "0107ae38", category |-> "professional", title |-> "Shift Boss",
     required_certificates |-> <<"Blasting Certificate", "Mine Managers Certificate">>],
    [id |-> "1635255c", category |-> "professional", title |-> "Mine Manager",
     required_certificates |-> <<"Mine Managers Certificate of Competency">>],
    [id |-> "d3e3d82e", category |-> "professional", title |-> "Surveyor",
     required_certificates |-> <<"Surveying Degree", "Professional Registration">>] >>

\* "levels" flow: required documents per experience level
EXPERIENCE_LEVELS == <<
    [level |-> "general_worker", label |-> "General Worker",
     required_documents |-> <<"Proof of Address", "Matric Certificate">>],
    [level |-> "semi_skilled", label |-> "Semi-Skilled Worker",
     required_documents |-> <<"Proof of Address", "Matric Certificate",
                              "Trade Certificate", "Medical Certificate">>],
    [level |-> "skilled_worker", label |-> "Skilled Worker",
     required_documents |-> <<"Proof of Address", "Matric Certificate",
                              "Trade Test Certificate", "Blasting Certificate",
                              "Medical Certificate", "CV">>],
    [level |-> "professional", label |-> "Professional",
     required_documents |-> <<"Proof of Address", "Matric Certificate",
                              "Degree/Diploma", "Professional Registration",
                              "Medical Certificate", "CV">>] >>

\* the step an experience level uploads in: `UPLOADING_${level.toUpperCase()}_DOCS`
UploadStateOf(level) ==
    CASE level = "general_worker" -> "UPLOADING_GENERAL_WORKER_DOCS"
      [] level = "semi_skilled" -> "UPLOADING_SEMI_SKILLED_DOCS"
      [] level = "skilled_worker" -> "UPLOADING_SKILLED_WORKER_DOCS"
      [] level = "professional" -> "UPLOADING_PROFESSIONAL_DOCS"

LevelUploadStates == {UploadStateOf(EXPERIENCE_LEVELS[i].level) : i \in 1..Len(EXPERIENCE_LEVELS)}

\* every step in which the session is working through a document checklist
UploadStates == {"UPLOADING_REQUIRED_DOCS"} \cup LevelUploadStates

\* the members every object literal inherits from Object.prototype
ObjectPrototypeKeys ==
    {"constructor", "__proto__", "hasOwnProperty", "isPrototypeOf",
     "propertyIsEnumerable", "toLocaleString", "toString", "valueOf",
     "__defineGetter__", "__defineSetter__", "__lookupGetter__",
     "__lookupSetter__"}

\* mapping[docName] for such a name: the inherited function or object, which
\* is truthy and no document-type code
InheritedMember == "[Object.prototype member]"

\* mapping[docName] || 'other' on the object literal mapping
getDocumentTypeEnum(docName) ==
    CASE docName = "ID Document" -> "id_document"
      [] docName = "Selfie" -> "selfie"
      [] docName = "Medical Certificate" -> "medical_certificate"
      [] docName = "Drill Operator Certificate" -> "drill_operator_certificate"
      [] docName = "Machine Operator License" -> "machine_operator_license"
      [] docName = "Safety Certificate" -> "safety_certificate"
      [] docName = "Winch Operator Certificate" -> "winch_operator_certificate"
      [] docName = "Plant Operator License" -> "plant_operator_license"
      [] docName = "Trade Test Certificate" -> "trade_test_certificate"
      [] docName = "Wireman License" -> "wireman_license"
      [] docName = "Welding Certificate" -> "welding_certificate"
      [] docName = "Red Seal / Trade Test" -> "red_seal"
      [] docName = "Engineering Degree" -> "engineering_degree"
      [] docName = "Professional Registration" -> "professional_registration"
      [] docName = "Safety Management Certificate" -> "safety_management_certificate"
      [] docName = "SAMTRAC" -> "samtrac"
      [] docName = "Blasting Certificate" -> "blasting_certificate"
      [] docName = "Supervisory Certificate" -> "supervisory_certificate"
      [] docName = "Mine Managers Certificate" -> "mine_managers_certificate"
      [] docName = "Mine Managers Certificate of Competency" -> "mine_managers_certificate"
      [] docName = "Surveying Degree" -> "surveying_degree"
      [] docName \in ObjectPrototypeKeys -> InheritedMember
      [] OTHER -> "other"

getDocumentTypeEnumLevels(docName) ==
    CASE docName = "ID Document" -> "id_document"
      [] docName = "Proof of Address" -> "proof_of_address"
      [] docName = "Matric Certificate" -> "matric_certificate"
      [] docName = "Trade Certificate" -> "trade_certificate"
      [] docName = "Trade Test Certificate" -> "trade_test_certificate"
      [] docName = "Blasting Certificate" -> "blasting_certificate"
      [] docName = "Medical Certificate" -> "medical_certificate"
      [] docName = "Degree/Diploma" -> "degree"
      [] docName = "Professional Registration" -> "professional_registration"
      [] docName = "CV" -> "cv"
      [] docName \in ObjectPrototypeKeys -> InheritedMember
      [] OTHER -> "other"

getFileExtension(mimeType) ==
    CASE mimeType = "image/jpeg" -> ".jpg"
      [] mimeType = "image/png" -> ".png"
      [] mimeType = "image/heic" -> ".heic"
      [] mimeType = "application/pdf" -> ".pdf"
      [] mimeType = "application/msword" -> ".doc"
      [] OTHER -> ".bin"

-----------------------------------------------------------------------------
(* JavaScript objects: the session payload is a function from its keys to  *)
(* their values; an object whose key order matters (uploaded_documents,    *)
(* allDocuments) is a sequence of [key, value] entries in insertion order. *)

EmptyData == <<>>

Has(data, k) == k \in DOMAIN data

\* { ...data, ...extra }
Spread(data, extra) == extra @@ data

Keys(obj) == {obj[i].key : i \in 1..Len(obj)}

\* obj[k] = v: an existing key keeps its position, a new key goes last
ObjSet(obj, k, v) ==
    IF k \in Keys(obj)
    THEN [i \in 1..Len(obj) |-> IF obj[i].key = k THEN [key |-> k, value |-> v] ELSE obj[i]]
    ELSE Append(obj, [key |-> k, value |-> v])

RECURSIVE ObjSpread(_, _)
\* { ...a, ...b } on ordered objects
ObjSpread(a, b) ==
    IF b = <<>> THEN a
    ELSE ObjSpread(ObjSet(a, Head(b).key, Head(b).value), Tail(b))

\* stateData.pending_documents || []
PendingOf(data) == IF Has(data, "pending_documents") THEN data.pending_documents ELSE <<>>

\* stateData.uploaded_documents || {}
UploadedOf(data) == IF Has(data, "uploaded_documents") THEN data.uploaded_documents ELSE <<>>

-----------------------------------------------------------------------------
(* Media staging: download, base64, file names                             *)

\* Buffer.from(bytes).toString('base64'): the text as a sequence of sextet
\* values 0..63, with 64 standing for the padding character '='
RECURSIVE Base64Encode(_)
Base64Encode(bytes) ==
    IF bytes = <<>> THEN <<>>
    ELSE IF Len(bytes) = 1 THEN
        <<bytes[1] \div 4, (bytes[1] % 4) * 16, 64, 64>>
    ELSE IF Len(bytes) = 2 THEN
        <<bytes[1] \div 4, (bytes[1] % 4) * 16 + bytes[2] \div 16,
          (bytes[2] % 16) * 4, 64>>
    ELSE
        <<bytes[1] \div 4, (bytes[1] % 4) * 16 + bytes[2] \div 16,
          (bytes[2] % 16) * 4 + bytes[3] \div 64, bytes[3] % 64>>
        \o Base64Encode(SubSeq(bytes, 4, Len(bytes)))

\* Buffer.from(text, 'base64')
RECURSIVE Base64Decode(_)
Base64Decode(text) ==
    IF Len(text) < 4 THEN <<>>
    ELSE
      LET a == text[1]
          b == text[2]
          c == text[3]
          d == text[4]
          b1 == a * 4 + b \div 16
          b2 == (b % 16) * 16 + c \div 4
          b3 == (c % 4) * 64 + d
      IN IF c = 64 THEN <<b1>>
         ELSE IF d = 64 THEN <<b1, b2>>
         ELSE <<b1, b2, b3>> \o Base64Decode(SubSeq(text, 5, Len(text)))

\* what the Graph API serves for a media id: its bytes and its MIME type
MediaFile(mediaId) ==
    CASE mediaId = "media-photo" -> [bytes |-> <<255, 216, 7>>, mime_type |-> "image/jpeg"]
      [] mediaId = "media-empty" -> [bytes |-> <<>>, mime_type |-> "application/pdf"]
      [] mediaId = "media-scan" -> [bytes |-> <<37, 80>>, mime_type |-> "application/pdf"]

MediaIds == {"media-photo"}

\* message.image?.id || message.document?.id of a media message without one
NoMediaId == "none"

\* downloadDocumentAsBase64 when both fetches succeed; fileName is
\* `${sanitizeFileName(documentType)}_${Date.now()}${ext}`, kept as its parts
\* (the timestamp is not modelled)
downloadDocumentAsBase64(mediaId, documentType) ==
    LET mediaInfo == MediaFile(mediaId) IN
    [base64 |-> Base64Encode(mediaInfo.bytes),
     mimeType |-> mediaInfo.mime_type,
     fileName |-> [stem |-> documentType, ext |-> getFileExtension(mediaInfo.mime_type)]]

\* the value of a payload key that holds no staged document
UndefinedDoc == [undefined |-> TRUE]

\* !docData || !docData.base64
HasNoContent(docData) == ~("base64" \in DOMAIN docData) \/ docData.base64 = <<>>

-----------------------------------------------------------------------------
(* Collaborator faults.  Each inbound event is processed with at most one  *)
(* failing collaborator call:                                              *)
(*   read     getConversationState's query returns an error                *)
(*   write    every updateConversationState of the event throws            *)
(*   reset    only the session reset inside completeApplicantRegistration  *)
(*   download the media download throws                                    *)
(*   auth, profile, applicant   the respective insert returns an error     *)
(*   upload1, upload2           the first / second blob upload fails       *)
(*   docs     the applicant_documents insert returns an error              *)
(*   email    the transactional email throws                               *)
(*   send     the first outbound WhatsApp message of the event throws      *)
(* getApplicantByWhatsApp also answers a fault named lookup (its query      *)
(* returns an error); the specification below does not inject it.           *)

Faults == {"none", "read", "write", "reset", "download", "auth", "profile",
           "applicant", "upload1", "upload2", "docs", "email", "send"}

-----------------------------------------------------------------------------
(* The running context of one event: the stores, plus what the event did.  *)

Ctx(rws, au, pr, ap, bl, dc) ==
    [rows |-> rws, authUsers |-> au, profiles |-> pr, applicants |-> ap,
     blobs |-> bl, documents |-> dc,
     thrown |-> FALSE,      \* an exception is propagating
     fault |-> "none",      \* the collaborator call that failed, if one did
     writes |-> <<>>,       \* steps written to the session store, in order
     sent |-> <<>>,         \* outbound WhatsApp messages, in order
     ops |-> <<>>,          \* store accesses and side effects, in order
     emails |-> <<>>,       \* transactional emails sent
     runs |-> 0,            \* invocations of completeApplicantRegistration
     outcome |-> "none",    \* "ok" / "failed": how the finalization ended
     payload |-> EmptyData] \* stateData the finalization was invoked with

Msg(tag, arg) == [tag |-> tag, arg |-> arg]

\* sendTextMessage / sendInteractiveButtons / sendInteractiveList; under fault
\* send the first call of the event throws and the later ones get through
Send(c, f, tag, arg) ==
    IF c.thrown THEN c
    ELSE IF f = "send" /\ c.fault # "send"
    THEN [c EXCEPT !.thrown = TRUE, !.fault = f]
    ELSE [c EXCEPT !.sent = Append(@, Msg(tag, arg))]

-----------------------------------------------------------------------------
(* Conversation State Store (lib/whatsapp/state-manager.ts)                *)

NoState == [found |-> FALSE]

Matching(rws, whatsappNumber) == {r \in rws : r.whatsapp_number = whatsappNumber}

\* .maybeSingle(): an error (also when several rows match) is reported as null
getConversationState(rws, f, whatsappNumber) ==
    LET m == Matching(rws, whatsappNumber) IN
    IF f = "read" \/ Cardinality(m) # 1 THEN NoState
    ELSE LET r == CHOOSE r \in m : TRUE
         IN [found |-> TRUE, current_state |-> r.current_state, data |-> r.data]

\* updateConversationState that logs the error and returns
updateConversationState_SwallowsError(c, f, whatsappNumber, newState, data) ==
    IF c.thrown THEN c
    ELSE IF f = "write" THEN [c EXCEPT !.fault = f]
    ELSE [c EXCEPT
            !.rows = (@ \ Matching(@, whatsappNumber)) \cup
                     {[whatsapp_number |-> whatsappNumber,
                       current_state |-> newState, data |-> data,
                       last_message_at |-> now]},
            !.writes = Append(@, newState),
            !.ops = Append(@, "write")]

\* upsert on conflict whatsapp_number, with last_message_at: new Date(); an
\* error is thrown to the caller
updateConversationState(c, f, whatsappNumber, newState, data) ==
    IF c.thrown THEN c
    ELSE IF f = "write" THEN [c EXCEPT !.thrown = TRUE, !.fault = f]
    ELSE [c EXCEPT
            !.rows = (@ \ Matching(@, whatsappNumber)) \cup
                     {[whatsapp_number |-> whatsappNumber,
                       current_state |-> newState, data |-> data,
                       last_message_at |-> now]},
            !.writes = Append(@, newState),
            !.ops = Append(@, "write")]

\* the session as POST sees it: state?.current_state || 'IDLE', state?.data || {}
CurrentStateOf(state) == IF state.found THEN state.current_state ELSE "IDLE"

StateDataOf(state) == IF state.found THEN state.data ELSE EmptyData

-----------------------------------------------------------------------------
(* Finalization                                                            *)

\* the value of a payload key that is not set
UndefinedText == <<"undefined">>

UndefinedId == "undefined"

TextOf(data, k) == IF Has(data, k) THEN data[k] ELSE UndefinedText

IdOf(data, k) == IF Has(data, k) THEN data[k] ELSE UndefinedId

DocOf(data, k) == IF Has(data, k) THEN data[k] ELSE UndefinedDoc

\* supabase.storage.from('applicant-documents').upload(path, buffer, {upsert: true})
StoreBlob(bl, path, buffer, contentType) ==
    {b \in bl : b.path # path} \cup
    {[path |-> path, content |-> buffer, contentType |-> contentType]}

\* the k-th upload call of an event fails under fault upload<k>
UploadFails(f, k) == (f = "upload1" /\ k = 1) \/ (f = "upload2" /\ k = 2)

RECURSIVE UploadLoop(_, _, _, _)
\* the for-loop of uploadAllDocumentsToStorage over the entries still to do;
\* acc = [blobs, urls, calls, thrown]
UploadLoop(entries, applicantId, f, acc) ==
    IF entries = <<>> \/ acc.thrown THEN acc
    ELSE
      LET docType == Head(entries).key
          docData == Head(entries).value
      IN IF HasNoContent(docData)
         THEN UploadLoop(Tail(entries), applicantId, f, acc)
         ELSE
           LET storagePath == <<applicantId, docData.fileName>>
               calls == acc.calls + 1
           IN IF UploadFails(f, calls)
              THEN [acc EXCEPT !.thrown = TRUE, !.fault = f, !.calls = calls]
              ELSE UploadLoop(Tail(entries), applicantId, f,
                     [acc EXCEPT
                        !.blobs = StoreBlob(@, storagePath,
                                            Base64Decode(docData.base64),
                                            docData.mimeType),
                        !.urls = ObjSet(@, docType, storagePath),
                        !.calls = calls])

uploadAllDocumentsToStorage(documentsIn, applicantId, f, bl) ==
    UploadLoop(documentsIn, applicantId, f,
               [blobs |-> bl, urls |-> <<>>, calls |-> 0, thrown |-> FALSE,
                fault |-> "none"])

\* DocumentInserts linking only the first uploaded document
DocumentInserts_FirstOnly(documentUrls, applicantId, titles) ==
    [i \in 1..(IF Len(documentUrls) > 0 THEN 1 ELSE 0) |->
        [applicant_id |-> applicantId,
         document_type |-> IF titles THEN getDocumentTypeEnum(documentUrls[i].key)
                           ELSE getDocumentTypeEnumLevels(documentUrls[i].key),
         document_name |-> documentUrls[i].key,
         document_url |-> documentUrls[i].value,
         status |-> "pending"]]

\* the rows handed to applicant_documents.insert, in Object.entries order
DocumentInserts(documentUrls, applicantId, titles) ==
    [i \in 1..Len(documentUrls) |->
        [applicant_id |-> applicantId,
         document_type |-> IF titles THEN getDocumentTypeEnum(documentUrls[i].key)
                           ELSE getDocumentTypeEnumLevels(documentUrls[i].key),
         document_name |-> documentUrls[i].key,
         document_url |-> documentUrls[i].value,
         status |-> "pending"]]

\* STEP 1: supabase.auth.admin.createUser; the auth service rejects an email
\* or a phone that is already registered
NewUserId(c) == Cardinality(c.authUsers) + 1

CreateAuthUser(c, f, from, email) ==
    LET authError == \/ f = "auth"
                     \/ \E u \in c.authUsers : u.phone = from \/ u.email = email
    IN IF c.thrown THEN c
       ELSE IF authError
       THEN [c EXCEPT !.thrown = TRUE, !.fault = IF f = "auth" THEN f ELSE @]
       ELSE [c EXCEPT !.authUsers =
                 @ \cup {[id |-> NewUserId(c), email |-> email, phone |-> from]},
                      !.ops = Append(@, "record")]

\* STEP 2: profiles.insert; id is the primary key
CreateBaseProfile(c, f, from, userId, email) ==
    LET profileError == f = "profile" \/ \E q \in c.profiles : q.id = userId
    IN IF c.thrown THEN c
       ELSE IF profileError
       THEN [c EXCEPT !.thrown = TRUE, !.fault = IF f = "profile" THEN f ELSE @]
       ELSE [c EXCEPT !.profiles =
                 @ \cup {[id |-> userId, user_type |-> "applicant",
                          email |-> email, cellphone |-> from]},
                      !.ops = Append(@, "record")]

\* STEP 3 with applicantError only logged: the run goes on to the uploads
CreateApplicantProfile_ErrorIgnored(c, f, from, userId, stateData, titles) ==
    LET applicantError == f = "applicant" \/ \E a \in c.applicants : a.id = userId
    IN IF c.thrown THEN c
       ELSE IF applicantError
       THEN [c EXCEPT !.fault = IF f = "applicant" THEN f ELSE @]
       ELSE [c EXCEPT !.applicants =
                 @ \cup {[id |-> userId,
                          id_number |-> TextOf(stateData, "id_number"),
                          whatsapp_number |-> from,
                          street_address |-> TextOf(stateData, "location"),
                          job_title_id |-> IdOf(stateData, "selected_title_id")]},
                      !.ops = Append(@, "record")]

\* STEP 3: applicant_profiles.insert; id is the primary key
CreateApplicantProfile(c, f, from, userId, stateData, titles) ==
    LET applicantError == f = "applicant" \/ \E a \in c.applicants : a.id = userId
    IN IF c.thrown THEN c
       ELSE IF applicantError
       THEN [c EXCEPT !.thrown = TRUE, !.fault = IF f = "applicant" THEN f ELSE @]
       ELSE [c EXCEPT !.applicants =
                 @ \cup {[id |-> userId,
                          id_number |-> TextOf(stateData, "id_number"),
                          whatsapp_number |-> from,
                          street_address |->
                              IF titles THEN TextOf(stateData, "location")
                              ELSE TextOf(stateData, "physical_address"),
                          job_title_id |->
                              IF titles THEN IdOf(stateData, "selected_title_id")
                              ELSE UndefinedId]},
                      !.ops = Append(@, "record")]

\* allDocuments: the identity document (and the selfie in "titles") followed by
\* the spread of uploaded_documents
StagedDocuments(stateData, titles) ==
    ObjSpread(
        IF titles
        THEN <<[key |-> "ID Document", value |-> DocOf(stateData, "id_document")],
               [key |-> "Selfie", value |-> DocOf(stateData, "selfie")]>>
        ELSE <<[key |-> "ID Document", value |-> DocOf(stateData, "id_document")]>>,
        UploadedOf(stateData))

\* STEP 4: upload every staged document
UploadStaged(c, f, userId, allDocuments) ==
    LET up == uploadAllDocumentsToStorage(allDocuments, userId, f, c.blobs)
    IN IF c.thrown THEN c
       ELSE [c EXCEPT !.blobs = up.blobs, !.thrown = up.thrown,
                      !.fault = IF up.thrown THEN up.fault ELSE @,
                      !.ops = IF up.blobs # c.blobs THEN Append(@, "upload") ELSE @]

\* STEP 5: link the documents; an insert error does not stop the run
\* ("titles" drops the result, "levels" only logs docsError)
LinkDocuments(c, f, userId, documentUrls, titles) ==
    IF c.thrown \/ Len(documentUrls) = 0 THEN c
    ELSE IF f = "docs" THEN [c EXCEPT !.fault = f]
    ELSE [c EXCEPT !.documents = @ \o DocumentInserts(documentUrls, userId, titles),
                   !.ops = Append(@, "record")]

\* STEP 6 merging the new keys into the payload of the registration
ResetSession_MergesPayload(c, f, from, userId) ==
    LET reset == updateConversationState(c, IF f = "reset" THEN "write" ELSE f, from,
                     "IDLE",
                     Spread(StateDataOf(getConversationState(c.rows, "none", from)),
                            [applicant_id |-> userId, user_type |-> "applicant"]))
    IN IF reset.thrown /\ ~c.thrown THEN [reset EXCEPT !.fault = f] ELSE reset

\* STEP 6: updateConversationState(from, 'IDLE', {applicant_id, user_type})
ResetSession(c, f, from, userId) ==
    LET reset == updateConversationState(c, IF f = "reset" THEN "write" ELSE f, from,
                     "IDLE", [applicant_id |-> userId, user_type |-> "applicant"])
    IN IF reset.thrown /\ ~c.thrown THEN [reset EXCEPT !.fault = f] ELSE reset

\* STEP 7 without the try/catch: a failed welcome email ends the run
sendWelcomeEmail_Propagates(c, f) ==
    IF c.thrown THEN c
    ELSE IF f = "email" THEN [c EXCEPT !.thrown = TRUE, !.fault = f]
    ELSE [c EXCEPT !.emails = Append(@, "welcome"), !.ops = Append(@, "email")]

\* STEP 7: welcome email inside its own try/catch
sendWelcomeEmail(c, f) ==
    IF c.thrown THEN c
    ELSE IF f = "email" THEN [c EXCEPT !.fault = f]
    ELSE [c EXCEPT !.emails = Append(@, "welcome"), !.ops = Append(@, "email")]

\* the try block of completeApplicantRegistration; titles tells the two
\* generations apart (selfie, job_title_id and location exist only in "titles")
RegistrationTry(c0, f, from, stateData, titles) ==
    LET email == TextOf(stateData, "email")
        userId == NewUserId(c0)
        c1 == CreateAuthUser(c0, f, from, email)
        c2 == CreateBaseProfile(c1, f, from, userId, email)
        c3 == CreateApplicantProfile(c2, f, from, userId, stateData, titles)
        allDocuments == StagedDocuments(stateData, titles)
        c4 == UploadStaged(c3, f, userId, allDocuments)
        documentUrls ==
            uploadAllDocumentsToStorage(allDocuments, userId, f, c3.blobs).urls
        c5 == LinkDocuments(c4, f, userId, documentUrls, titles)
        c6 == ResetSession(c5, f, from, userId)
        c7 == sendWelcomeEmail(c6, f)
        \* success message, then the menu buttons
        c8 == Send(c7, f, "registration_complete", "")
    IN Send(c8, f, "menu_buttons", "")

completeApplicantRegistration(c, f, from, stateData, titles) ==
    IF c.thrown THEN c
    ELSE
      LET started == [c EXCEPT !.runs = @ + 1, !.payload = stateData]
          tried == RegistrationTry(started, f, from, stateData, titles)
      IN IF tried.thrown
         THEN \* catch: the session is left as it is
              Send([tried EXCEPT !.thrown = FALSE, !.outcome = "failed"],
                   f, "registration_failed", "")
         ELSE [tried EXCEPT !.outcome = "ok"]

-----------------------------------------------------------------------------
(* Dialogue engine: handlers shared by the two generations                 *)

W_hi == <<"h", "i">>

W_hello == <<"h", "e", "l", "l", "o">>

W_menu == <<"m", "e", "n", "u">>

W_help == <<"h", "e", "l", "p">>

W_skip == <<"s", "k", "i", "p">>

W_job == <<"j", "o", "b">>

\* .from('applicant_profiles').select('*').eq('whatsapp_number', phone).single():
\* data is null on an error, on no row and on several rows
getApplicantByWhatsApp(c, f, phone) ==
    LET m == {a \in c.applicants : a.whatsapp_number = phone} IN
    IF f = "lookup" \/ Cardinality(m) # 1 THEN [found |-> FALSE]
    ELSE [found |-> TRUE, id |-> (CHOOSE a \in m : TRUE).id]

\* handleGreeting sending a new sender to IDLE instead of registration
handleGreeting_NewUserIdle(c0, f, from, titles) ==
    LET applicant == getApplicantByWhatsApp(c0, f, from)
        c == IF f = "lookup" THEN [c0 EXCEPT !.fault = f] ELSE c0
    IN
    IF ~applicant.found
    THEN Send(updateConversationState(c, f, from, "IDLE", EmptyData),
              f, "consent_prompt", "")
    ELSE Send(updateConversationState(c, f, from, "IDLE",
                  [applicant_id |-> applicant.id, user_type |-> "applicant"]),
              f, "returning_menu", "")

handleGreeting(c0, f, from, titles) ==
    LET applicant == getApplicantByWhatsApp(c0, f, from)
        c == IF f = "lookup" THEN [c0 EXCEPT !.fault = f] ELSE c0
    IN
    IF ~applicant.found
    THEN IF titles
         THEN Send(updateConversationState(c, f, from, "APPLICANT_REG_CONSENT", EmptyData),
                   f, "consent_prompt", "")
         ELSE Send(updateConversationState(c, f, from, "APPLICANT_REG_ID_NUMBER", EmptyData),
                   f, "id_number_prompt", "")
    ELSE Send(updateConversationState(c, f, from, "IDLE",
                  [applicant_id |-> applicant.id, user_type |-> "applicant"]),
              f, "returning_menu", "")

handleHelp(c, f, from) == Send(c, f, "help", "")

handleIdleState(c, f, from, text) ==
    IF includes(toLowerCase(text), W_job)
    THEN Send(c, f, "jobs_coming_soon", "")
    ELSE Send(c, f, "type_menu", "")

\* handleApplicantRegIDNumber moving on after the invalid-number message
handleApplicantRegIDNumber_NoGate(c, f, from, idNumber, stateData) ==
    LET cleaned == StripWhitespace(idNumber)
        idInfo == parseSAIDNumber(cleaned)
        homeAffairs == verifyWithHomeAffairs(cleaned)
    IN IF ~isValidSAIDNumber(cleaned) \/ ~idInfo.valid
       THEN updateConversationState(Send(c, f, "invalid_id", ""), f, from,
                "APPLICANT_REG_ID_UPLOAD", stateData)
       ELSE Send(updateConversationState(c, f, from, "APPLICANT_REG_ID_UPLOAD",
                     Spread(stateData,
                            [id_number |-> cleaned,
                             first_name |-> homeAffairs.first_name,
                             last_name |-> homeAffairs.last_name,
                             date_of_birth |-> idInfo.dateOfBirth,
                             age |-> idInfo.age,
                             gender |-> idInfo.gender,
                             home_affairs_verified |-> TRUE])),
                 f, "upload_id_prompt", "")

handleApplicantRegIDNumber(c, f, from, idNumber, stateData) ==
    LET cleaned == StripWhitespace(idNumber)
        idInfo == parseSAIDNumber(cleaned)
        homeAffairs == verifyWithHomeAffairs(cleaned)
    IN IF ~isValidSAIDNumber(cleaned) THEN Send(c, f, "invalid_id", "")
       ELSE IF ~idInfo.valid THEN Send(c, f, "could_not_validate_id", "")
       ELSE IF ~homeAffairs.verified THEN Send(c, f, "id_not_found", "")
       ELSE Send(updateConversationState(c, f, from, "APPLICANT_REG_ID_UPLOAD",
                     Spread(stateData,
                            [id_number |-> cleaned,
                             first_name |-> homeAffairs.first_name,
                             last_name |-> homeAffairs.last_name,
                             date_of_birth |-> idInfo.dateOfBirth,
                             age |-> idInfo.age,
                             gender |-> idInfo.gender,
                             home_affairs_verified |-> TRUE])),
                 f, "upload_id_prompt", "")

\* try { body } catch { sendTextMessage('Upload failed. Please try again.') }
CatchUploadFailed(body, f) ==
    IF body.thrown
    THEN Send([body EXCEPT !.thrown = FALSE], f, "upload_failed", "")
    ELSE body

\* the download writing the file to blob storage as soon as it arrives
Download_AndStore(c, f) ==
    IF f = "download" THEN [c EXCEPT !.thrown = TRUE, !.fault = f]
    ELSE [c EXCEPT !.blobs = StoreBlob(@, <<From, "incoming">>, <<>>, "image/jpeg"),
                   !.ops = Append(@, "download")]

\* await downloadDocumentAsBase64(...) as a statement: throws under fault download
Download(c, f) ==
    IF c.thrown THEN c
    ELSE IF f = "download" THEN [c EXCEPT !.thrown = TRUE, !.fault = f]
    ELSE [c EXCEPT !.ops = Append(@, "download")]

\* processDocumentUpload popping the head of the queue before the download
processDocumentUpload_PopBeforeDownload(c, f, from, imageId, currentState, stateData, titles) ==
    LET pendingDocs == PendingOf(stateData) IN
    IF imageId = NoMediaId THEN Send(c, f, "upload_or_skip", "")
    ELSE IF Len(pendingDocs) = 0
    THEN completeApplicantRegistration(c, f, from, stateData, titles)
    ELSE
      LET currentDoc == pendingDocs[1]
          docData == downloadDocumentAsBase64(imageId, currentDoc)
          uploadedDocs == ObjSet(UploadedOf(stateData), currentDoc, docData)
          remainingDocs == Tail(pendingDocs)
          popped == updateConversationState(c, f, from, currentState,
                        Spread(stateData, [pending_documents |-> remainingDocs]))
          downloaded == Download(popped, f)
      IN CatchUploadFailed(
           IF Len(remainingDocs) = 0
           THEN completeApplicantRegistration(downloaded, f, from,
                    Spread(stateData, [uploaded_documents |-> uploadedDocs]), titles)
           ELSE Send(updateConversationState(downloaded, f, from, currentState,
                         Spread(stateData, [uploaded_documents |-> uploadedDocs,
                                            pending_documents |-> remainingDocs])),
                     f, "received_next", remainingDocs[1]),
           f)

processDocumentUpload(c, f, from, imageId, currentState, stateData, titles) ==
    LET pendingDocs == PendingOf(stateData) IN
    IF imageId = NoMediaId THEN Send(c, f, "upload_or_skip", "")
    ELSE IF Len(pendingDocs) = 0
    THEN completeApplicantRegistration(c, f, from, stateData, titles)
    ELSE
      LET currentDoc == pendingDocs[1]
          docData == downloadDocumentAsBase64(imageId, currentDoc)
          uploadedDocs == ObjSet(UploadedOf(stateData), currentDoc, docData)
          remainingDocs == Tail(pendingDocs)
          downloaded == Download(c, f)
      IN CatchUploadFailed(
           IF Len(remainingDocs) = 0
           THEN completeApplicantRegistration(downloaded, f, from,
                    Spread(stateData, [uploaded_documents |-> uploadedDocs]), titles)
           ELSE Send(updateConversationState(downloaded, f, from, currentState,
                         Spread(stateData, [uploaded_documents |-> uploadedDocs,
                                            pending_documents |-> remainingDocs])),
                     f, "received_next", remainingDocs[1]),
           f)

\* skipCurrentDocument finishing one document early: remainingDocs.length <= 1
skipCurrentDocument_EarlyFinish(c, f, from, currentState, stateData, titles) ==
    LET pendingDocs == PendingOf(stateData)
        remainingDocs == IF pendingDocs = <<>> THEN <<>> ELSE Tail(pendingDocs)
    IN IF Len(remainingDocs) <= 1
       THEN completeApplicantRegistration(c, f, from, stateData, titles)
       ELSE Send(updateConversationState(c, f, from, currentState,
                     Spread(stateData, [pending_documents |-> remainingDocs])),
                 f, "skipped_next", remainingDocs[1])

skipCurrentDocument(c, f, from, currentState, stateData, titles) ==
    LET pendingDocs == PendingOf(stateData)
        remainingDocs == IF pendingDocs = <<>> THEN <<>> ELSE Tail(pendingDocs)
    IN IF Len(remainingDocs) = 0
       THEN completeApplicantRegistration(c, f, from, stateData, titles)
       ELSE Send(updateConversationState(c, f, from, currentState,
                     Spread(stateData, [pending_documents |-> remainingDocs])),
                 f, "skipped_next", remainingDocs[1])

\* the transactional email of the email step, inside its own try/catch
sendIDVerificationEmail(c, f) ==
    IF c.thrown THEN c
    ELSE IF f = "email" THEN [c EXCEPT !.fault = f]
    ELSE [c EXCEPT !.emails = Append(@, "id_verification"),
                   !.ops = Append(@, "email")]

menuAction(c, f, buttonId) ==
    CASE buttonId = "view_jobs" -> Send(c, f, "jobs_coming_soon", "")
      [] buttonId = "my_applications" -> Send(c, f, "applications_coming_soon", "")
      [] buttonId = "update_profile" -> Send(c, f, "profile_coming_soon", "")
      [] OTHER -> c

-----------------------------------------------------------------------------
(* Dialogue engine, "titles" generation (src/unnamed/part_002)             *)

\* handleApplicantRegEmail that goes straight to the category list
handleApplicantRegEmail_SkipsLocation(c, f, from, email, stateData) ==
    LET emailLower == trim(toLowerCase(email)) IN
    IF ~isValidEmail(emailLower) THEN Send(c, f, "invalid_email", "")
    ELSE Send(updateConversationState(sendIDVerificationEmail(c, f), f, from,
                  "APPLICANT_REG_SELECTING_CATEGORY",
                  Spread(stateData, [email |-> emailLower])),
              f, "category_list", "")

handleApplicantRegEmail(c, f, from, email, stateData) ==
    LET emailLower == trim(toLowerCase(email)) IN
    IF ~isValidEmail(emailLower) THEN Send(c, f, "invalid_email", "")
    ELSE Send(updateConversationState(sendIDVerificationEmail(c, f), f, from,
                  "APPLICANT_REG_LOCATION", Spread(stateData, [email |-> emailLower])),
              f, "location_prompt", "")

\* handleApplicantRegLocation writing the location alone, without ...stateData
handleApplicantRegLocation_DropsPayload(c, f, from, location, stateData) ==
    LET locationClean == sanitizeInput(location) IN
    Send(updateConversationState(c, f, from, "APPLICANT_REG_SELECTING_CATEGORY",
             [location |-> locationClean]),
         f, "category_list", "")

handleApplicantRegLocation(c, f, from, location, stateData) ==
    LET locationClean == sanitizeInput(location) IN
    Send(updateConversationState(c, f, from, "APPLICANT_REG_SELECTING_CATEGORY",
             Spread(stateData, [location |-> locationClean])),
         f, "category_list", "")

handleTextMessage(c, f, from, text, currentState, stateData) ==
    LET textLower == trim(toLowerCase(text)) IN
    IF textLower = W_hi \/ textLower = W_hello \/ textLower = W_menu
    THEN handleGreeting(c, f, from, TRUE)
    ELSE IF textLower = W_help THEN handleHelp(c, f, from)
    ELSE CASE currentState = "IDLE" -> handleIdleState(c, f, from, text)
           [] currentState = "APPLICANT_REG_ID_NUMBER" ->
                handleApplicantRegIDNumber(c, f, from, text, stateData)
           [] currentState = "APPLICANT_REG_EMAIL" ->
                handleApplicantRegEmail(c, f, from, text, stateData)
           [] currentState = "APPLICANT_REG_LOCATION" ->
                handleApplicantRegLocation(c, f, from, text, stateData)
           [] currentState = "UPLOADING_REQUIRED_DOCS" ->
                IF textLower = W_skip
                THEN skipCurrentDocument(c, f, from, currentState, stateData, TRUE)
                ELSE Send(c, f, "upload_or_skip", "")
           [] OTHER -> Send(c, f, "menu_or_help", "")

handleDocumentMessage(c, f, from, imageId, currentState, stateData) ==
    IF imageId = NoMediaId THEN Send(c, f, "upload_image_or_pdf", "")
    ELSE IF currentState = "APPLICANT_REG_ID_UPLOAD"
    THEN CatchUploadFailed(
             Send(updateConversationState(Download(c, f), f, from, "APPLICANT_REG_SELFIE",
                      Spread(stateData,
                             [id_document |-> downloadDocumentAsBase64(imageId, "id_document")])),
                  f, "selfie_prompt", ""),
             f)
    ELSE IF currentState = "APPLICANT_REG_SELFIE"
    THEN CatchUploadFailed(
             Send(updateConversationState(Download(c, f), f, from, "APPLICANT_REG_EMAIL",
                      Spread(stateData,
                             [selfie |-> downloadDocumentAsBase64(imageId, "selfie")])),
                  f, "email_prompt", ""),
             f)
    ELSE IF currentState = "UPLOADING_REQUIRED_DOCS"
    THEN processDocumentUpload(c, f, from, imageId, currentState, stateData, TRUE)
    ELSE c

handleLocationMessage(c, f, from, currentState) ==
    IF currentState = "APPLICANT_REG_LOCATION"
    THEN Send(c, f, "type_city_instead", "")
    ELSE c

\* handleConsentSelection thanking a declining user without resetting the session
handleConsentSelection_DeclineKeeps(c, f, from, buttonId) ==
    IF buttonId = "consent_yes"
    THEN Send(updateConversationState(c, f, from, "APPLICANT_REG_ID_NUMBER", EmptyData),
              f, "id_number_prompt", "")
    ELSE IF buttonId = "consent_no"
    THEN Send(c, f, "thank_you", "")
    ELSE c

handleConsentSelection(c, f, from, buttonId) ==
    IF buttonId = "consent_yes"
    THEN Send(updateConversationState(c, f, from, "APPLICANT_REG_ID_NUMBER", EmptyData),
              f, "id_number_prompt", "")
    ELSE IF buttonId = "consent_no"
    THEN Send(updateConversationState(c, f, from, "IDLE", EmptyData),
              f, "thank_you", "")
    ELSE c

\* JOB_TITLES.filter(job => job.category === category)
TitlesForCategory(category) ==
    SelectSeq(JOB_TITLES, LAMBDA job : job.category = category)

\* the title cut after 24 characters, with the dots on top
displayTitle_CutAt24(title) ==
    IF Len(title) > 24 THEN SubSeq(title, 1, 24) \o <<".", ".", ".">> ELSE title

\* handleCategorySelection: displayTitle.substring(0, 21) + '...' when
\* displayTitle.length > 24
displayTitle(title) ==
    IF Len(title) > 24 THEN SubSeq(title, 1, 21) \o <<".", ".", ".">> ELSE title

\* handleCategorySelection: titlesForCategory.map(job => ({title: displayTitle,
\* ...})).slice(0, 10), for the titles of the jobs in catalog order
CategoryRows(titles) ==
    LET mapped == [i \in 1..Len(titles) |-> [title |-> displayTitle(titles[i])]]
    IN SubSeq(mapped, 1, IF Len(mapped) < 10 THEN Len(mapped) ELSE 10)

\* sendInteractiveList: the checks that throw on the rows of the one section
\* (the description, `${certCount} ${certWord} required`, stays far below 72)
ListRejected(sectionRows) ==
    \/ Len(sectionRows) > 10
    \/ \E i \in 1..Len(sectionRows) : Len(sectionRows[i].title) > 24

\* the titles of the catalog are all shorter than 25 characters and no
\* category has more than 6 of them: the list of a category is kept as its tag
handleCategorySelection(c, f, from, category, stateData) ==
    IF Len(TitlesForCategory(category)) = 0 THEN Send(c, f, "no_titles", "")
    ELSE Send(updateConversationState(c, f, from, "APPLICANT_REG_SELECTING_TITLE",
                  Spread(stateData, [selected_category |-> category])),
              f, "title_list", category)

\* a filter that lets every certificate through
IsNotIdDocument_KeepsAll(doc) == doc = doc

\* required_certificates.filter(doc => doc !== 'ID Document')
IsNotIdDocument(doc) == doc # "ID Document"

handleTitleSelection(c, f, from, titleId, stateData) ==
    IF ~\E i \in 1..Len(JOB_TITLES) : JOB_TITLES[i].id = titleId
    THEN Send(c, f, "invalid_title", "")
    ELSE
      LET selectedJob == JOB_TITLES[CHOOSE i \in 1..Len(JOB_TITLES) : JOB_TITLES[i].id = titleId]
          requiredDocs == SelectSeq(selectedJob.required_certificates, IsNotIdDocument)
          written == updateConversationState(c, f, from, "UPLOADING_REQUIRED_DOCS",
                         Spread(stateData,
                                [selected_title_id |-> titleId,
                                 selected_title |-> selectedJob.title,
                                 selected_category |-> selectedJob.category,
                                 pending_documents |-> requiredDocs,
                                 uploaded_documents |-> <<>>]))
      IN IF Len(requiredDocs) = 0
         THEN \* finalization receives the stateData read at the start of the event
              completeApplicantRegistration(Send(written, f, "no_documents_required", ""),
                                            f, from, stateData, TRUE)
         ELSE Send(written, f, "required_documents", requiredDocs[1])

handleInteractiveMessage(c, f, from, buttonId, currentState, stateData) ==
    IF currentState = "APPLICANT_REG_CONSENT"
    THEN handleConsentSelection(c, f, from, buttonId)
    ELSE IF currentState = "APPLICANT_REG_SELECTING_CATEGORY"
    THEN handleCategorySelection(c, f, from, buttonId, stateData)
    ELSE IF currentState = "APPLICANT_REG_SELECTING_TITLE"
    THEN handleTitleSelection(c, f, from, buttonId, stateData)
    ELSE menuAction(c, f, buttonId)

-----------------------------------------------------------------------------
(* Dialogue engine, "levels" generation (src/app/api/whatsapp/webhook/route.ts) *)

handleApplicantRegEmailLevels(c, f, from, email, stateData) ==
    LET emailLower == trim(toLowerCase(email)) IN
    IF ~isValidEmail(emailLower) THEN Send(c, f, "invalid_email", "")
    ELSE Send(updateConversationState(sendIDVerificationEmail(c, f), f, from,
                  "APPLICANT_REG_ADDRESS", Spread(stateData, [email |-> emailLower])),
              f, "address_prompt", "")

\* handleApplicantRegAddress without the isValidSAAddress check
handleApplicantRegAddress_NoCheck(c, f, from, address, stateData) ==
    LET addressClean == sanitizeInput(address) IN
    Send(updateConversationState(c, f, from, "APPLICANT_REG_SELECTING_LEVEL",
             Spread(stateData, [physical_address |-> addressClean])),
         f, "level_list", "")

handleApplicantRegAddress(c, f, from, address, stateData) ==
    LET addressClean == sanitizeInput(address) IN
    IF ~isValidSAAddress(addressClean) THEN Send(c, f, "incomplete_address", "")
    ELSE Send(updateConversationState(c, f, from, "APPLICANT_REG_SELECTING_LEVEL",
                  Spread(stateData, [physical_address |-> addressClean])),
              f, "level_list", "")

handleTextMessageLevels(c, f, from, text, currentState, stateData) ==
    LET textLower == trim(toLowerCase(text)) IN
    IF textLower = W_hi \/ textLower = W_hello \/ textLower = W_menu
    THEN handleGreeting(c, f, from, FALSE)
    ELSE IF textLower = W_help THEN handleHelp(c, f, from)
    ELSE CASE currentState = "IDLE" -> handleIdleState(c, f, from, text)
           [] currentState = "APPLICANT_REG_ID_NUMBER" ->
                handleApplicantRegIDNumber(c, f, from, text, stateData)
           [] currentState = "APPLICANT_REG_EMAIL" ->
                handleApplicantRegEmailLevels(c, f, from, text, stateData)
           [] currentState = "APPLICANT_REG_ADDRESS" ->
                handleApplicantRegAddress(c, f, from, text, stateData)
           [] currentState \in LevelUploadStates ->
                IF textLower = W_skip
                THEN skipCurrentDocument(c, f, from, currentState, stateData, FALSE)
                ELSE Send(c, f, "upload_or_skip", "")
           [] OTHER -> Send(c, f, "menu_or_help", "")

handleExperienceLevelSelection(c, f, from, level, stateData) ==
    IF ~\E i \in 1..Len(EXPERIENCE_LEVELS) : EXPERIENCE_LEVELS[i].level = level
    THEN Send(c, f, "invalid_selection", "")
    ELSE
      LET levelConfig == EXPERIENCE_LEVELS[CHOOSE i \in 1..Len(EXPERIENCE_LEVELS) :
                                               EXPERIENCE_LEVELS[i].level = level]
      IN Send(updateConversationState(c, f, from, UploadStateOf(level),
                  Spread(stateData,
                         [experience_level |-> level,
                          pending_documents |-> levelConfig.required_documents,
                          uploaded_documents |-> <<>>])),
              f, "required_documents", levelConfig.required_documents[1])

handleInteractiveMessageLevels(c, f, from, buttonId, currentState, stateData) ==
    IF currentState = "APPLICANT_REG_SELECTING_LEVEL"
    THEN handleExperienceLevelSelection(c, f, from, buttonId, stateData)
    ELSE menuAction(c, f, buttonId)

handleDocumentMessageLevels(c, f, from, imageId, currentState, stateData) ==
    IF currentState = "APPLICANT_REG_ID_UPLOAD"
    THEN IF imageId = NoMediaId THEN Send(c, f, "upload_image_or_pdf", "")
         ELSE CatchUploadFailed(
                  Send(updateConversationState(Download(c, f), f, from, "APPLICANT_REG_EMAIL",
                           Spread(stateData,
                                  [id_document |-> downloadDocumentAsBase64(imageId, "id_document")])),
                       f, "email_prompt", ""),
                  f)
    \* currentState.includes('UPLOADING_')
    ELSE IF currentState \in UploadStates
    THEN processDocumentUpload(c, f, from, imageId, currentState, stateData, FALSE)
    ELSE c

-----------------------------------------------------------------------------
(* The state manager on its own: callers that run its functions            *)
(* concurrently, one database call at a time.  Two versions are in the     *)
(* repository:                                                             *)
(*   "upsert":    src/lib/whatsapp/state-manager.ts, one upsert per write, *)
(*   "readwrite": src/unnamed/part_000 lines 1-178, a read followed by an  *)
(*                update or an insert, and no updateStateData and no       *)
(*                cleanupOldStates.                                        *)
(* Here a row of whatsapp_conversation_states also carries last_message_at.*)

\* the callers that may be inside the state manager at the same time
MaxCallers == 2

Callers == 1..MaxCallers

\* the clock stops here
MaxClock == 2

\* cleanupOldStates(daysOld)
DaysOldChoices == 1..MaxClock

StoreNumbers == {From}

StoreSteps == {"IDLE", "APPLICANT_REG_EMAIL"}

\* data of updateConversationState, preserveData of resetToIdle
StorePayloads == {EmptyData, [email |-> "t@ma.za", first_name |-> "Thabo"]}

\* newData of updateStateData: a key the payload may hold and one it lacks
MergePayloads == {[email |-> "n@ma.za", location |-> "Jhb"]}

\* the outcomes of the query of getConversationState: an answer or an error
ReadFaults == {"none", "read"}

Idle == [pc |-> "idle"]

\* no helper function has been applied
NoHelper == [fn |-> "none"]

NoCall ==
    [op |-> "none", whatsapp_number |-> "", newState |-> "", data |-> EmptyData,
     error |-> FALSE, overlapped |-> FALSE]

Returned(op, whatsappNumber, newState, data, error, overlapped) ==
    [op |-> op, whatsapp_number |-> whatsappNumber, newState |-> newState,
     data |-> data, error |-> error, overlapped |-> overlapped]

\* .upsert({...}, { onConflict: 'whatsapp_number' }): one statement
TableUpsert(rws, whatsappNumber, newState, data, at) ==
    (rws \ Matching(rws, whatsappNumber)) \cup
    {[whatsapp_number |-> whatsappNumber, current_state |-> newState,
      data |-> data, last_message_at |-> at]}

\* .update({current_state, data, updated_at}).eq('whatsapp_number', ...):
\* last_message_at is not among the columns set
TableUpdate(rws, whatsappNumber, newState, data) ==
    {IF r.whatsapp_number = whatsappNumber
     THEN [r EXCEPT !.current_state = newState, !.data = data]
     ELSE r : r \in rws}

\* .insert into a table that has no unique index on whatsapp_number
TableInsert_NoUniqueIndex(rws, whatsappNumber, newState, data, at) ==
    [error |-> FALSE,
     rows |-> rws \cup {[whatsapp_number |-> whatsappNumber,
                         current_state |-> newState, data |-> data,
                         last_message_at |-> at]}]

\* .insert({whatsapp_number, current_state, data}): whatsapp_number carries
\* the unique index that onConflict: 'whatsapp_number' names, so a second
\* row for a number is rejected; last_message_at gets the column default,
\* taken to be now()
TableInsert(rws, whatsappNumber, newState, data, at) ==
    IF Matching(rws, whatsappNumber) # {}
    THEN [error |-> TRUE, rows |-> rws]
    ELSE [error |-> FALSE,
          rows |-> rws \cup {[whatsapp_number |-> whatsappNumber,
                              current_state |-> newState, data |-> data,
                              last_message_at |-> at]}]

StoreUnchanged ==
    UNCHANGED <<flow, authUsers, profiles, applicants, blobs, documents, ev,
                faultCount, manager, call, roleProfiles, notifications>>

\* the upsert of state-manager.ts, with last_message_at: new Date()
UpsertState(p, op, whatsappNumber, newState, data) ==
    /\ manager = "upsert"
    /\ inCall[p] = Idle
    /\ rows' = TableUpsert(rows, whatsappNumber, newState, data, now)
    /\ ret' = Returned(op, whatsappNumber, newState, data, FALSE, FALSE)
    /\ UNCHANGED <<inCall, now>>
    /\ StoreUnchanged

\* part_000: const existingState = await getConversationState(whatsappNumber)
UpdateRead(p, op, whatsappNumber, newState, data) ==
    /\ manager = "readwrite"
    /\ inCall[p] = Idle
    /\ inCall' = [inCall EXCEPT ![p] =
                    [pc |-> "write", op |-> op, whatsapp_number |-> whatsappNumber,
                     newState |-> newState, data |-> data,
                     existingState |->
                         getConversationState(rows, "none", whatsappNumber).found]]
    /\ UNCHANGED <<rows, now, ret>>
    /\ StoreUnchanged

\* part_000: if (existingState) update ... else insert ...; error is thrown
UpdateWrite ==
    \E p \in Callers :
        /\ inCall[p].pc = "write"
        /\ LET c == inCall[p]
               inserted == TableInsert(rows, c.whatsapp_number, c.newState, c.data, now)
               overlapped == c.existingState # (Matching(rows, c.whatsapp_number) # {})
           IN IF c.existingState
              THEN /\ rows' = TableUpdate(rows, c.whatsapp_number, c.newState, c.data)
                   /\ ret' = Returned(c.op, c.whatsapp_number, c.newState, c.data,
                                       FALSE, overlapped)
              ELSE /\ rows' = inserted.rows
                   /\ ret' = Returned(c.op, c.whatsapp_number, c.newState, c.data,
                                       inserted.error, overlapped)
        /\ inCall' = [inCall EXCEPT ![p] = Idle]
        /\ UNCHANGED now
        /\ StoreUnchanged

getConversationStateCall ==
    \E p \in Callers, whatsappNumber \in StoreNumbers, f \in ReadFaults :
        /\ inCall[p] = Idle
        /\ LET state == getConversationState(rows, f, whatsappNumber)
           IN ret' = Returned("getConversationState", whatsappNumber,
                              CurrentStateOf(state), StateDataOf(state),
                              ~state.found, FALSE)
        /\ UNCHANGED <<rows, inCall, now>>
        /\ StoreUnchanged

updateConversationStateCall ==
    \E p \in Callers, whatsappNumber \in StoreNumbers,
       newState \in StoreSteps, data \in StorePayloads :
        \/ UpsertState(p, "updateConversationState", whatsappNumber, newState, data)
        \/ UpdateRead(p, "updateConversationState", whatsappNumber, newState, data)

\* resetToIdle(whatsappNumber, preserveData?); part_000 always passes {}
resetToIdleCall ==
    \E p \in Callers, whatsappNumber \in StoreNumbers :
        \/ \E preserveData \in StorePayloads :
              UpsertState(p, "resetToIdle", whatsappNumber, "IDLE", preserveData)
        \/ UpdateRead(p, "resetToIdle", whatsappNumber, "IDLE", EmptyData)

\* updateStateData: const state = await getConversationState(whatsappNumber)
updateStateDataRead ==
    \E p \in Callers, whatsappNumber \in StoreNumbers, newData \in MergePayloads,
       f \in ReadFaults :
        /\ manager = "upsert"
        /\ inCall[p] = Idle
        /\ inCall' = [inCall EXCEPT ![p] =
                        [pc |-> "merge", whatsapp_number |-> whatsappNumber,
                         newData |-> newData, fault |-> f,
                         state |-> getConversationState(rows, f, whatsappNumber)]]
        /\ UNCHANGED <<rows, now, ret>>
        /\ StoreUnchanged

\* updateStateData with every key of newData dropped
MergedData_KeepsOld(state, newData) ==
    IF state.found THEN state.data ELSE newData

\* updateStateData: newData when no state was read, else
\* { ...currentData, ...newData }
MergedData(state, newData) ==
    IF state.found THEN Spread(state.data, newData) ELSE newData

\* updateStateData: the updateConversationState that follows the read
updateStateDataWrite ==
    \E p \in Callers :
        /\ inCall[p].pc = "merge"
        /\ LET c == inCall[p]
               currentState == IF c.state.found THEN c.state.current_state ELSE "IDLE"
               merged == MergedData(c.state, c.newData)
               overlapped == c.state # getConversationState(rows, "none", c.whatsapp_number)
           IN /\ rows' = TableUpsert(rows, c.whatsapp_number, currentState, merged, now)
              /\ ret' = Returned("updateStateData", c.whatsapp_number, currentState,
                                  merged, FALSE, overlapped)
        /\ inCall' = [inCall EXCEPT ![p] = Idle]
        /\ UNCHANGED now
        /\ StoreUnchanged

clearConversationStateCall ==
    \E p \in Callers, whatsappNumber \in StoreNumbers :
        /\ inCall[p] = Idle
        /\ rows' = rows \ Matching(rows, whatsappNumber)
        /\ ret' = Returned("clearConversationState", whatsappNumber, "", EmptyData,
                            FALSE, FALSE)
        /\ UNCHANGED <<inCall, now>>
        /\ StoreUnchanged

\* delete ... .lt('last_message_at', cutoffDate)
cleanupOldStatesCall ==
    \E p \in Callers, daysOld \in DaysOldChoices :
        /\ manager = "upsert"
        /\ inCall[p] = Idle
        /\ rows' = {r \in rows : ~(r.last_message_at < now - daysOld)}
        /\ ret' = Returned("cleanupOldStates", "", "", EmptyData, FALSE, FALSE)
        /\ UNCHANGED <<inCall, now>>
        /\ StoreUnchanged

\* a day passes; a store call takes no such time, so none is in progress
Tick ==
    /\ now < MaxClock
    /\ \A p \in Callers : inCall[p] = Idle
    /\ now' = now + 1
    /\ UNCHANGED <<rows, inCall, ret>>
    /\ StoreUnchanged

InitStore ==
    /\ flow = "levels"
    /\ rows = {}
    /\ authUsers = {}
    /\ profiles = {}
    /\ applicants = {}
    /\ blobs = {}
    /\ documents = <<>>
    /\ ev = [kind |-> "none"]
    /\ faultCount = 0
    /\ manager \in {"upsert", "readwrite"}
    /\ now = 0
    /\ inCall = [p \in Callers |-> Idle]
    /\ ret = NoCall
    /\ call = NoHelper
    /\ roleProfiles = {}
    /\ notifications = {}

NextStore ==
    \/ getConversationStateCall
    \/ updateConversationStateCall
    \/ UpdateWrite
    \/ updateStateDataRead
    \/ updateStateDataWrite
    \/ resetToIdleCall
    \/ clearConversationStateCall
    \/ cleanupOldStatesCall
    \/ Tick

SpecStore == InitStore /\ [][NextStore]_vars

-----------------------------------------------------------------------------
(* Inbound events                                                          *)

\* message.text.body of the modelled text messages
T_Hi == <<"H", "i">>

T_Menu == <<" ", "M", "E", "N", "U", " ">>

T_Help == <<"H", "e", "l", "p">>

T_Skip == <<"S", "K", "I", "P">>

\* 8001015009087, typed with a space after the date of birth
T_ValidId == <<"8", "0", "0", "1", "0", "1", " ", "5", "0", "0", "9", "0", "8", "7">>

\* the same number with the check digit changed
T_BadId == <<"8", "0", "0", "1", "0", "1", "5", "0", "0", "9", "0", "8", "8">>

T_Email == <<"T", "@", "m", "a", ".", "z", "a">>

T_Address == <<"1", "2", " ", "M", "a", "i", "n", " ", "<", "J", "h", "b", ">">>

Texts == {T_Hi, T_Menu, T_Help, T_Skip, T_ValidId, T_BadId, T_Email, T_Address}

\* ids of button and list replies
\* the job titles the modelled user picks: Helper (no further document),
\* General Mine Worker (one), Drill Operator (two)
PickedTitles == {"e8aff06e", "55ffbb89", "9b157f2f"}

Buttons ==
    {"consent_yes", "consent_no", "general_worker", "semi_skilled",
     "view_jobs", "unknown_reply"} \cup PickedTitles

NoEvent ==
    [kind |-> "none", text |-> <<>>, button |-> "", media |-> NoMediaId,
     state |-> "IDLE", fault |-> "none", thrown |-> FALSE, writes |-> <<>>, sent |-> <<>>,
     emails |-> <<>>, runs |-> 0, outcome |-> "none", payload |-> EmptyData,
     at |-> 0, ops |-> <<>>]

\* the session POST reads before it routes the message
ReadState(f) == getConversationState(rows, f, From)

\* the context an event starts from
Start(f) ==
    LET c == [Ctx(rows, authUsers, profiles, applicants, blobs, documents)
                EXCEPT !.ops = <<"read">>]
    IN IF f = "read" THEN [c EXCEPT !.fault = f] ELSE c

\* the stores and the event log after the handler returned context c; an
\* exception that escapes the handler is caught by POST and only logged
Commit(kind, text, button, media, state, c) ==
    /\ rows' = c.rows
    /\ authUsers' = c.authUsers
    /\ profiles' = c.profiles
    /\ applicants' = c.applicants
    /\ blobs' = c.blobs
    /\ documents' = c.documents
    /\ ev' = [kind |-> kind, text |-> text, button |-> button, media |-> media,
              state |-> CurrentStateOf(state),
              fault |-> c.fault, thrown |-> c.thrown, writes |-> c.writes,
              sent |-> c.sent, emails |-> c.emails, runs |-> c.runs,
              outcome |-> c.outcome, payload |-> c.payload, at |-> now,
              ops |-> c.ops]
    /\ faultCount' = IF c.fault = "none" THEN faultCount ELSE faultCount + 1
    /\ UNCHANGED <<flow, manager, now, inCall, ret, call, roleProfiles, notifications>>

\* the faults an event may be processed under: none, or one that a call of
\* this event actually runs into while the budget lasts
Admits(f, c) == f = "none" \/ c.fault = f

\* the faults left to inject
FaultChoices == IF faultCount < MaxFaults THEN Faults ELSE {"none"}

\* POST with messageType === 'text': one of the given texts, under one of
\* the given faults
TextMessageOn(texts, faults) ==
    \E text \in texts, f \in faults :
        LET state == ReadState(f)
            c == IF flow = "titles"
                 THEN handleTextMessage(Start(f), f, From, text,
                                        CurrentStateOf(state), StateDataOf(state))
                 ELSE handleTextMessageLevels(Start(f), f, From, text,
                                              CurrentStateOf(state), StateDataOf(state))
        IN Admits(f, c) /\ Commit("text", text, "", NoMediaId, state, c)

\* POST with messageType === 'interactive'
InteractiveMessageOn(buttons, faults) ==
    \E buttonId \in buttons, f \in faults :
        LET state == ReadState(f)
            c == IF flow = "titles"
                 THEN handleInteractiveMessage(Start(f), f, From, buttonId,
                                               CurrentStateOf(state), StateDataOf(state))
                 ELSE handleInteractiveMessageLevels(Start(f), f, From, buttonId,
                                                     CurrentStateOf(state), StateDataOf(state))
        IN Admits(f, c) /\ Commit("interactive", <<>>, buttonId, NoMediaId, state, c)

\* POST with messageType === 'image' || messageType === 'document'
DocumentMessageOn(faults) ==
    \E imageId \in MediaIds \cup {NoMediaId}, f \in faults :
        LET state == ReadState(f)
            c == IF flow = "titles"
                 THEN handleDocumentMessage(Start(f), f, From, imageId,
                                            CurrentStateOf(state), StateDataOf(state))
                 ELSE handleDocumentMessageLevels(Start(f), f, From, imageId,
                                                  CurrentStateOf(state), StateDataOf(state))
        IN Admits(f, c) /\ Commit("media", <<>>, "", imageId, state, c)

\* POST with messageType === 'location' ("levels" has no branch for it)
LocationMessageOn(faults) ==
    \E f \in faults :
        LET state == ReadState(f)
            c == IF flow = "titles"
                 THEN handleLocationMessage(Start(f), f, From, CurrentStateOf(state))
                 ELSE Start(f)
        IN Admits(f, c) /\ Commit("location", <<>>, "", NoMediaId, state, c)

TextMessage == TextMessageOn(Texts, FaultChoices)

InteractiveMessage == InteractiveMessageOn(Buttons, FaultChoices)

DocumentMessage == DocumentMessageOn(FaultChoices)

LocationMessage == LocationMessageOn(FaultChoices)

\* the webhook awaits every store call, one event at a time: no store call
\* is ever in progress between two events
Init ==
    /\ flow \in {"titles", "levels"}
    /\ rows = {}
    /\ authUsers = {}
    /\ profiles = {}
    /\ applicants = {}
    /\ blobs = {}
    /\ documents = <<>>
    /\ ev = NoEvent
    /\ faultCount = 0
    /\ manager = "upsert"
    /\ now = 0
    /\ inCall = [p \in Callers |-> Idle]
    /\ ret = NoCall
    /\ call = NoHelper
    /\ roleProfiles = {}
    /\ notifications = {}

Next ==
    \/ TextMessage
    \/ InteractiveMessage
    \/ DocumentMessage
    \/ LocationMessage

Spec == Init /\ [][Next]_vars

\* the same events when the only call that may fail is the applicant lookup
\* of handleGreeting
LookupChoices == IF faultCount < MaxFaults THEN {"none", "lookup"} ELSE {"none"}

\* the texts and the replies of the shortest registration: Helper in
\* "titles", General Worker in "levels"
LookupTexts == {T_Hi, T_ValidId, T_Email, T_Address}

LookupButtons == {"consent_yes", "general_worker", "e8aff06e"}

TextMessageLookup == TextMessageOn(LookupTexts, LookupChoices)

InteractiveMessageLookup == InteractiveMessageOn(LookupButtons, {"none"})

DocumentMessageLookup == DocumentMessageOn({"none"})

LocationMessageLookup == LocationMessageOn({"none"})

NextLookup ==
    \/ TextMessageLookup
    \/ InteractiveMessageLookup
    \/ DocumentMessageLookup
    \/ LocationMessageLookup

SpecLookup == Init /\ [][NextLookup]_vars

-----------------------------------------------------------------------------
(* The webhook over several days, with the administrative sweep: events    *)
(* that start a registration and events that only re-prompt, the clock,    *)
(* and cleanupOldStates.  No collaborator call fails.                      *)

\* a greeting, and a text no step accepts
ExpiryTexts == {T_Hi, T_BadId}

ExpiryButtons == {"consent_yes", "consent_no"}

TextMessageExpiry == TextMessageOn(ExpiryTexts, {"none"})

InteractiveMessageExpiry == InteractiveMessageOn(ExpiryButtons, {"none"})

NextExpiry ==
    \/ TextMessageExpiry
    \/ InteractiveMessageExpiry
    \/ cleanupOldStatesCall
    \/ Tick

SpecExpiry == Init /\ [][NextExpiry]_vars

-----------------------------------------------------------------------------
(* The helper functions on their own: a behaviour applies one of them to   *)
(* an input drawn from a bounded set and logs the result in call.          *)

\* the longest phone number given to formatPhoneNumber
MaxPhoneLen == 4

\* a leading zero, the digits of the country code, another digit, and a
\* character that is not a digit
PhoneChars == {"0", "2", "7", "8", "+"}

PhoneInputs == UNION {[1..n -> PhoneChars] : n \in 0..MaxPhoneLen}

HelpersUnchanged ==
    UNCHANGED <<flow, rows, authUsers, profiles, applicants, blobs, documents, ev,
                faultCount, manager, now, inCall, ret, roleProfiles, notifications>>

\* formatPhoneNumber(phone), and formatPhoneNumber applied to its result
formatPhoneNumberCall ==
    \E phone \in PhoneInputs :
        /\ call = NoHelper
        /\ call' = [fn |-> "formatPhoneNumber", input |-> phone,
                    output |-> formatPhoneNumber(phone),
                    again |-> formatPhoneNumber(formatPhoneNumber(phone))]
        /\ HelpersUnchanged

\* digits 3-4 and 5-6 of the ID numbers given to isValidSAIDNumber
IdMonths == {<<"0", "0">>, <<"0", "1">>, <<"0", "2">>, <<"1", "2">>, <<"1", "3">>}

IdDays == {<<"0", "0">>, <<"0", "1">>, <<"2", "9">>, <<"3", "1">>, <<"3", "2">>}

\* 80 MM DD 5009 0 8 Z for the months and days above and every check digit
IdNumbers ==
    {<<"8", "0">> \o mm \o dd \o <<"5", "0", "0", "9", "0", "8", z>> :
        mm \in IdMonths, dd \in IdDays, z \in Digits}

\* 13 digits around whitespace, 12 and 14 digits, a letter among 13 characters
IdOddities ==
    {T_ValidId,
     <<"8", "0", "0", "1", "0", "1", "5", "0", "0", "9", "0", "8">>,
     <<"8", "0", "0", "1", "0", "1", "5", "0", "0", "9", "0", "8", "7", "0">>,
     <<"8", "0", "0", "1", "0", "1", "5", "0", "0", "9", "0", "8", "x">>,
     <<" ", "8", "0", "0", "1", "0", "1", "5", "0", "0", "9", "0", "8">>,
     <<>>}

IdInputs == IdNumbers \cup IdOddities

isValidSAIDNumberCall ==
    \E idNumber \in IdInputs :
        /\ call = NoHelper
        /\ call' = [fn |-> "isValidSAIDNumber", input |-> idNumber,
                    output |-> isValidSAIDNumber(idNumber)]
        /\ HelpersUnchanged

\* isValidSAIDNumber on an ID number it accepts and on the same number with
\* the digit at one position replaced by another digit
isValidSAIDNumberChanged ==
    \E idNumber \in IdNumbers, position \in 1..13, digit \in Digits :
        /\ call = NoHelper
        /\ isValidSAIDNumber(idNumber)
        /\ digit # idNumber[position]
        /\ call' = [fn |-> "isValidSAIDNumberChanged", input |-> idNumber,
                    position |-> position, digit |-> digit,
                    output |-> isValidSAIDNumber(idNumber),
                    again |-> isValidSAIDNumber(idNumber),
                    changed |-> isValidSAIDNumber(
                                    [idNumber EXCEPT ![position] = digit])]
        /\ HelpersUnchanged

\* the keys of mapping in part_002 and in route.ts
MappingLabels ==
    {"ID Document", "Selfie", "Medical Certificate", "Drill Operator Certificate",
     "Machine Operator License", "Safety Certificate", "Winch Operator Certificate",
     "Plant Operator License", "Trade Test Certificate", "Wireman License",
     "Welding Certificate", "Red Seal / Trade Test", "Engineering Degree",
     "Professional Registration", "Safety Management Certificate", "SAMTRAC",
     "Blasting Certificate", "Supervisory Certificate", "Mine Managers Certificate",
     "Mine Managers Certificate of Competency", "Surveying Degree"}

MappingLabelsLevels ==
    {"ID Document", "Proof of Address", "Matric Certificate", "Trade Certificate",
     "Trade Test Certificate", "Blasting Certificate", "Medical Certificate",
     "Degree/Diploma", "Professional Registration", "CV"}

\* labels in neither table: a document nobody listed, the empty label, a
\* listed label in another case, and the names every object answers to
UnlistedLabels ==
    {"Drivers License", "", "id document"} \cup ObjectPrototypeKeys

DocumentLabels == MappingLabels \cup MappingLabelsLevels \cup UnlistedLabels

getDocumentTypeEnumCall ==
    \E docName \in DocumentLabels, generation \in {"titles", "levels"} :
        /\ call = NoHelper
        /\ call' = [fn |-> "getDocumentTypeEnum", generation |-> generation,
                    input |-> docName,
                    output |-> IF generation = "titles"
                               THEN getDocumentTypeEnum(docName)
                               ELSE getDocumentTypeEnumLevels(docName)]
        /\ HelpersUnchanged

\* the longest job title and the largest category given to
\* handleCategorySelection
MaxTitleLen == 26

MaxRows == 12

\* a title of n characters, all different up to the 26th
TitleOfLength(n) == [i \in 1..n |-> Lower[((i - 1) % 26) + 1]]

\* the rows handleCategorySelection builds for a category of count jobs whose
\* titles have n characters, and what sendInteractiveList makes of them
handleCategorySelectionRows ==
    \E count \in 1..MaxRows, n \in 0..MaxTitleLen :
        LET titles == [i \in 1..count |-> TitleOfLength(n)]
            sectionRows == CategoryRows(titles)
        IN /\ call = NoHelper
           /\ call' = [fn |-> "handleCategorySelection", titles |-> titles,
                       rows |-> sectionRows, rejected |-> ListRejected(sectionRows)]
           /\ HelpersUnchanged

InitHelpers ==
    /\ flow = "titles"
    /\ rows = {}
    /\ authUsers = {}
    /\ profiles = {}
    /\ applicants = {}
    /\ blobs = {}
    /\ documents = <<>>
    /\ ev = NoEvent
    /\ faultCount = 0
    /\ manager = "upsert"
    /\ now = 0
    /\ inCall = [p \in Callers |-> Idle]
    /\ ret = NoCall
    /\ call = NoHelper
    /\ roleProfiles = {}
    /\ notifications = {}

NextHelpers ==
    \/ formatPhoneNumberCall
    \/ isValidSAIDNumberCall
    \/ isValidSAIDNumberChanged
    \/ getDocumentTypeEnumCall
    \/ handleCategorySelectionRows

SpecHelpers == InitHelpers /\ [][NextHelpers]_vars

-----------------------------------------------------------------------------
(* Media events of one user handled concurrently.  POST has no lock per     *)
(* user: an invocation reads the session, and handles the message on what   *)
(* it read, while another invocation may do the same.  An invocation is two *)
(* steps here, the read and the rest (download, write-back, reply), for    *)
(* the media events that find the session in a document collection step;   *)
(* every other event is processed while no such event is in progress.  No  *)
(* collaborator call fails.                                                 *)

\* the files the user sends: a photo and a scanned page
ConcurrentMedia == {"media-photo", "media-scan"}

\* the texts and the replies of a registration with two documents to upload
\* (Drill Operator) in the flow of part_002
ConcurrentTexts == {T_Hi, T_ValidId, T_Email, T_Address}

ConcurrentButtons == {"consent_yes", "semi_skilled", "9b157f2f"}

NoneInProgress == \A p \in Callers : inCall[p] = Idle

TextMessageAlone == NoneInProgress /\ TextMessageOn(ConcurrentTexts, {"none"})

InteractiveMessageAlone ==
    NoneInProgress /\ InteractiveMessageOn(ConcurrentButtons, {"none"})

\* the ID photo and the selfie
DocumentMessageAlone ==
    /\ NoneInProgress
    /\ CurrentStateOf(ReadState("none")) \notin UploadStates
    /\ DocumentMessageOn({"none"})

\* POST up to const stateData = state?.data || {}
MediaEventRead ==
    \E p \in Callers, imageId \in ConcurrentMedia :
        /\ inCall[p] = Idle
        /\ CurrentStateOf(ReadState("none")) \in UploadStates
        /\ inCall' = [inCall EXCEPT ![p] =
                        [pc |-> "routed", media |-> imageId,
                         state |-> ReadState("none")]]
        /\ UNCHANGED <<flow, rows, authUsers, profiles, applicants, blobs, documents,
                       ev, faultCount, manager, now, ret, call, roleProfiles,
                       notifications>>

\* the stores and the event log after a handler that read `state` earlier
\* returned context c
CommitConcurrent(p, imageId, state, c) ==
    /\ rows' = c.rows
    /\ authUsers' = c.authUsers
    /\ profiles' = c.profiles
    /\ applicants' = c.applicants
    /\ blobs' = c.blobs
    /\ documents' = c.documents
    /\ ev' = [kind |-> "media", text |-> <<>>, button |-> "", media |-> imageId,
              state |-> CurrentStateOf(state),
              fault |-> c.fault, thrown |-> c.thrown, writes |-> c.writes,
              sent |-> c.sent, emails |-> c.emails, runs |-> c.runs,
              outcome |-> c.outcome, payload |-> c.payload, at |-> now,
              ops |-> c.ops,
              \* another event wrote the session after this one read it
              stale |-> state # ReadState("none")]
    /\ inCall' = [inCall EXCEPT ![p] = Idle]
    /\ UNCHANGED <<flow, faultCount, manager, now, ret, call, roleProfiles,
                   notifications>>

\* POST from the routing on: handleDocumentMessage with the currentState and
\* the stateData read before
MediaEventHandle ==
    \E p \in Callers :
        /\ inCall[p].pc = "routed"
        /\ CommitConcurrent(p, inCall[p].media, inCall[p].state,
              handleDocumentMessage(Start("none"), "none", From, inCall[p].media,
                                    CurrentStateOf(inCall[p].state),
                                    StateDataOf(inCall[p].state)))

NextConcurrent ==
    \/ TextMessageAlone
    \/ InteractiveMessageAlone
    \/ DocumentMessageAlone
    \/ MediaEventRead
    \/ MediaEventHandle

InitConcurrent == Init /\ flow = "titles"

SpecConcurrent == InitConcurrent /\ [][NextConcurrent]_vars

-----------------------------------------------------------------------------
(* Client and provider registration of the first webhook of                *)
(* src/unnamed/part_002 (lines 1-1706): the step that issues the           *)
(* verification code, and the verification step, which creates the auth    *)
(* user, the base profile and the role profile, each after looking for an  *)
(* existing one.  The session starts at the step that issues the code, with *)
(* the payload the earlier steps collected; the clock of this              *)
(* specification counts periods of ten minutes.                            *)

\* Math.floor(100000 + Math.random() * 900000).toString(): two of the codes
Codes == {<<"1", "2", "3", "4", "5", "6">>, <<"6", "5", "4", "3", "2", "1">>}

\* the context of an event of this webhook: the running context plus the
\* role-profile tables
CtxOf(rws, au, pr, rp) ==
    [roleProfiles |-> rp] @@ [Ctx(rws, au, pr, {}, {}, <<>>) EXCEPT !.ops = <<"read">>]

\* await sendVerificationEmail(...): throws when the mail service fails
sendVerificationEmail(c, f) ==
    IF c.thrown THEN c
    ELSE IF f = "email" THEN [c EXCEPT !.thrown = TRUE, !.fault = f]
    ELSE [c EXCEPT !.emails = Append(@, "verification"), !.ops = Append(@, "email")]

\* try { body } catch { sendTextMessage(<failure text>) }
CatchAndTell(body, f, tag) ==
    IF body.thrown THEN Send([body EXCEPT !.thrown = FALSE], f, tag, "") ELSE body

\* new Date(Date.now() + 10 * 60 * 1000): one period of the clock later
VerificationExpiresAt == now + 1

handleClientRegEmail(c, f, from, email, stateData, verificationCode) ==
    LET emailLower == trim(toLowerCase(email)) IN
    IF ~isValidEmail(emailLower) THEN Send(c, f, "invalid_email", "")
    ELSE CatchAndTell(
           Send(updateConversationState(sendVerificationEmail(c, f), f, from,
                    "CLIENT_REG_VERIFICATION",
                    Spread(stateData,
                           [email |-> emailLower,
                            verification_code |-> verificationCode,
                            verification_expires_at |-> VerificationExpiresAt])),
                f, "code_sent", ""),
           f, "failed_to_send_email")

handleProviderAddress(c, f, from, address, stateData, verificationCode) ==
    LET addressClean == sanitizeInput(address) IN
    CatchAndTell(
        Send(updateConversationState(sendVerificationEmail(c, f), f, from,
                 "PROVIDER_REG_VERIFICATION",
                 Spread(stateData,
                        [address |-> addressClean,
                         verification_code |-> verificationCode,
                         verification_expires_at |-> VerificationExpiresAt])),
             f, "code_sent", ""),
        f, "failed_to_send_email")

\* supabase.auth.admin.listUsers() without page parameters: the first page
\* of the user directory (50 users unless perPage is given).  onFirstPage
\* tells whether the users of this contact are among them; the other
\* users of the directory are not modelled.
listUsers(c, onFirstPage) == IF onFirstPage THEN c.authUsers ELSE {}

\* profiles.insert({id: userId, ...}) of the verification step
InsertBaseProfile(c, f, from, userId, stateData, role) ==
    IF c.thrown THEN c
    ELSE IF f = "profile" THEN [c EXCEPT !.thrown = TRUE, !.fault = f]
    ELSE [c EXCEPT !.profiles =
              @ \cup {[id |-> userId, email |-> TextOf(stateData, "email"),
                       phone |-> from, active_role |-> role]},
                   !.ops = Append(@, "record")]

\* profiles.update({active_role, ...}).eq('id', userId); an error is logged
UpdateBaseProfile(c, userId, role) ==
    IF c.thrown THEN c
    ELSE [c EXCEPT !.profiles =
              {IF q.id = userId THEN [q EXCEPT !.active_role = role] ELSE q : q \in @}]

\* client_profiles.insert / provider_profiles.insert
InsertRoleProfile(c, f, userId, role) ==
    IF c.thrown THEN c
    ELSE IF f = "role" THEN [c EXCEPT !.thrown = TRUE, !.fault = f]
    ELSE [c EXCEPT !.roleProfiles = @ \cup {[user_id |-> userId, role |-> role]},
                   !.ops = Append(@, "record")]

\* the try block of handleClientRegVerification (role "client") and of
\* handleProviderRegVerification (role "provider"), which differ in the
\* tables and texts only
VerificationTry(c0, f, from, stateData, role, onFirstPage) ==
    LET email == TextOf(stateData, "email")
        existingUsers == {u \in listUsers(c0, onFirstPage) :
                             u.email = email \/ u.phone = from}
        existingUser == existingUsers # {}
        c1 == IF existingUser THEN c0 ELSE CreateAuthUser(c0, f, from, email)
        userId == IF existingUser THEN (CHOOSE u \in existingUsers : TRUE).id
                  ELSE NewUserId(c0)
        existingBaseProfile == \E q \in c1.profiles : q.id = userId
        c2 == IF existingBaseProfile THEN UpdateBaseProfile(c1, userId, role)
              ELSE InsertBaseProfile(c1, f, from, userId, stateData, role)
        existingRoleProfile ==
            \E r \in c2.roleProfiles : r.user_id = userId /\ r.role = role
        c3 == IF existingRoleProfile THEN c2 ELSE InsertRoleProfile(c2, f, userId, role)
        c4 == updateConversationState(c3, f, from, "IDLE",
                                      [userId |-> userId, userType |-> role])
        c5 == IF existingUser THEN c4 ELSE sendWelcomeEmail(c4, f)
    IN Send(c5, f, IF existingUser THEN "welcome_back" ELSE "registration_complete", "")

RegVerification(c, f, from, code, stateData, role, onFirstPage) ==
    LET codeClean == trim(code) IN
    IF codeClean # TextOf(stateData, "verification_code")
    THEN Send(c, f, "invalid_code", "")
    ELSE CatchAndTell(VerificationTry(c, f, from, stateData, role, onFirstPage),
                      f, "registration_failed_later")

handleClientRegVerification(c, f, from, code, stateData, onFirstPage) ==
    RegVerification(c, f, from, code, stateData, "client", onFirstPage)

handleProviderRegVerification(c, f, from, code, stateData, onFirstPage) ==
    RegVerification(c, f, from, code, stateData, "provider", onFirstPage)

\* handleTextMessage of the first webhook for a text that is no global
\* command, in the steps modelled here
handleTextMessageServices(c, f, from, text, currentState, stateData, verificationCode, onFirstPage) ==
    CASE currentState = "IDLE" -> handleIdleState(c, f, from, text)
      [] currentState = "CLIENT_REG_EMAIL" ->
           handleClientRegEmail(c, f, from, text, stateData, verificationCode)
      [] currentState = "CLIENT_REG_VERIFICATION" ->
           handleClientRegVerification(c, f, from, text, stateData, onFirstPage)
      [] currentState = "PROVIDER_REG_ADDRESS" ->
           handleProviderAddress(c, f, from, text, stateData, verificationCode)
      [] currentState = "PROVIDER_REG_VERIFICATION" ->
           handleProviderRegVerification(c, f, from, text, stateData, onFirstPage)
      [] OTHER -> Send(c, f, "menu_or_help", "")

\* the e-mail address, an address, a code typed with blanks around it, and
\* the other code
T_Code == <<" ", "1", "2", "3", "4", "5", "6", " ">>

VerifyTexts == {T_Email, T_Address, T_Code, <<"6", "5", "4", "3", "2", "1">>}

VerifyFaults == {"none", "auth", "profile", "role", "write", "email", "send"}

VerifyFaultChoices == IF faultCount < MaxFaults THEN VerifyFaults ELSE {"none"}

TextMessageVerify ==
    \E text \in VerifyTexts, f \in VerifyFaultChoices, verificationCode \in Codes,
       onFirstPage \in BOOLEAN :
        LET state == ReadState("none")
            c == handleTextMessageServices(
                     CtxOf(rows, authUsers, profiles, roleProfiles), f, From, text,
                     CurrentStateOf(state), StateDataOf(state),
                     verificationCode, onFirstPage)
        IN /\ Admits(f, c)
           /\ rows' = c.rows
           /\ authUsers' = c.authUsers
           /\ profiles' = c.profiles
           /\ roleProfiles' = c.roleProfiles
           /\ ev' = [kind |-> "text", text |-> text, button |-> "", media |-> NoMediaId,
                     state |-> CurrentStateOf(state),
                     fault |-> c.fault, thrown |-> c.thrown, writes |-> c.writes,
                     sent |-> c.sent, emails |-> c.emails, runs |-> 0,
                     outcome |-> "none", payload |-> StateDataOf(state), at |-> now,
                     ops |-> c.ops, onFirstPage |-> onFirstPage]
           /\ faultCount' = IF c.fault = "none" THEN faultCount ELSE faultCount + 1
           /\ UNCHANGED <<flow, applicants, blobs, documents, manager, now, inCall,
                          ret, call, notifications>>

\* ten minutes pass
TenMinutesPass ==
    /\ now < MaxClock
    /\ now' = now + 1
    /\ UNCHANGED <<flow, rows, authUsers, profiles, applicants, blobs, documents, ev,
                   faultCount, manager, inCall, ret, call, roleProfiles, notifications>>

\* the payload of a client before the e-mail step and of a provider before
\* the address step
ClientPayload ==
    [user_type |-> "client", first_name |-> "Thabo", surname |-> "Mokwena"]

ProviderPayload ==
    [user_type |-> "provider", first_name |-> "Thabo", surname |-> "Mokwena",
     email |-> <<"t", "@", "m", "a", ".", "z", "a">>, category_id |-> "plumbing",
     experience_years |-> 3]

InitVerify ==
    /\ flow \in {"client", "provider"}
    /\ rows = {[whatsapp_number |-> From,
                current_state |-> IF flow = "client" THEN "CLIENT_REG_EMAIL"
                                  ELSE "PROVIDER_REG_ADDRESS",
                data |-> IF flow = "client" THEN ClientPayload ELSE ProviderPayload,
                last_message_at |-> 0]}
    /\ authUsers = {}
    /\ profiles = {}
    /\ applicants = {}
    /\ blobs = {}
    /\ documents = <<>>
    /\ ev = NoEvent
    /\ faultCount = 0
    /\ manager = "upsert"
    /\ now = 0
    /\ inCall = [p \in Callers |-> Idle]
    /\ ret = NoCall
    /\ call = NoHelper
    /\ roleProfiles = {}
    /\ notifications = {}

NextVerify ==
    \/ TextMessageVerify
    \/ TenMinutesPass

SpecVerify == InitVerify /\ [][NextVerify]_vars

-----------------------------------------------------------------------------
(* The notification dispatcher (src/app/api/notifications/send-whatsapp/   *)
(* route.ts).  A row of notification_queue carries, besides its columns,   *)
(* two counters that only record what happened to it: attempts, the calls  *)
(* of sendTextMessage made for it, and delivered, those that returned.  A  *)
(* nullable column is <<>> for null and <<v>> for the value v.  One run of *)
(* POST is one step; sendTextMessage may throw for any notification, and   *)
(* an update of notification_queue may return an error while the budget of *)
(* collaborator faults lasts.                                              *)

NotificationIds == {"n1", "n2"}

\* applicant_profiles.whatsapp_number as an E.164 number, and as the webhook
\* stores it (message.from)
PhoneE164 == <<"+", "2", "7", "8", "2", "0", "0", "0", "0", "0", "0", "1">>

PhoneFrom == <<"2", "7", "8", "2", "0", "0", "0", "0", "0", "0", "1">>

DispatchApplicants ==
    {[id |-> "user-a", id_number |-> <<>>, whatsapp_number |-> PhoneE164,
      street_address |-> <<>>, job_title_id |-> UndefinedId],
     [id |-> "user-b", id_number |-> <<>>, whatsapp_number |-> PhoneFrom,
      street_address |-> <<>>, job_title_id |-> UndefinedId]}

\* notification.user_id: the two applicants, and a user without a profile
DispatchUsers == {"user-a", "user-b", "user-c"}

\* x || d for a nullable number
OrNumber(x, d) == IF x = <<>> \/ x[1] = 0 THEN d ELSE x[1]

\* .limit(50)
QueueLimit == 50

\* .eq('channel', 'whatsapp').eq('status', 'pending').is('sent_at', null)
Selectable(n) ==
    n.channel = "whatsapp" /\ n.status = "pending" /\ n.sent_at = <<>>

\* !phone || !phone.startsWith('+27') || phone.length !== 12
InvalidPhone(phone) ==
    \/ phone = <<>>
    \/ ~startsWith(phone, <<"+", "2", "7">>)
    \/ Len(phone) # 12

\* supabase.from('notification_queue').update(fields).eq('id', notification.id):
\* the result is not looked at, so a returned error leaves the row as it was
UpdateNotification(n, fields, error) ==
    IF error THEN n
    ELSE [n EXCEPT !.status = fields.status, !.sent_at = fields.sent_at,
                   !.retry_count = fields.retry_count,
                   !.failure_reason = fields.failure_reason]

\* the body of the loop for one notification: sendThrows says whether
\* sendTextMessage throws, updateError whether the update returns an error
ProcessNotification(n, sendThrows, updateError) ==
    LET found == {a \in applicants : a.id = n.user_id}
        phone == (CHOOSE a \in found : TRUE).whatsapp_number
        retryCount == n.retry_count + 1
        shouldRetry == retryCount < OrNumber(n.max_retries, 3)
    IN IF found = {}
       THEN UpdateNotification(n, [status |-> "failed", sent_at |-> n.sent_at,
                                   retry_count |-> n.retry_count + 1,
                                   failure_reason |-> "Applicant not found"],
                               updateError)
       ELSE IF InvalidPhone(phone)
       THEN UpdateNotification(n, [status |-> "failed", sent_at |-> n.sent_at,
                                   retry_count |-> n.retry_count + 1,
                                   failure_reason |-> "Invalid phone number format"],
                               updateError)
       ELSE IF sendThrows
       THEN UpdateNotification([n EXCEPT !.attempts = @ + 1],
                               [status |-> IF shouldRetry THEN "pending" ELSE "failed",
                                sent_at |-> n.sent_at,
                                retry_count |-> retryCount,
                                failure_reason |-> "send"],
                               updateError)
       ELSE UpdateNotification([n EXCEPT !.attempts = @ + 1, !.delivered = @ + 1],
                               [status |-> "sent", sent_at |-> <<now>>,
                                retry_count |-> n.retry_count,
                                failure_reason |-> n.failure_reason],
                               updateError)

\* POST: the pending notifications, at most QueueLimit of them, one after the
\* other
DispatchRun ==
    LET pending == {n \in notifications : Selectable(n)}
        size == IF Cardinality(pending) < QueueLimit THEN Cardinality(pending)
                ELSE QueueLimit
    IN \E selected \in SUBSET pending :
         /\ Cardinality(selected) = size
         /\ selected # {}
         /\ \E sendThrows \in SUBSET selected, updateError \in SUBSET selected :
              /\ faultCount + Cardinality(updateError) <= MaxFaults
              /\ notifications' =
                   (notifications \ selected) \cup
                   {ProcessNotification(n, n \in sendThrows, n \in updateError) :
                      n \in selected}
              /\ faultCount' = faultCount + Cardinality(updateError)
              /\ UNCHANGED <<flow, rows, authUsers, profiles, applicants, blobs,
                             documents, ev, manager, now, inCall, ret, call,
                             roleProfiles>>

\* a queued notification as its producer inserts it
Queued(id) ==
    [id : {id}, channel : {"whatsapp", "email"}, user_id : DispatchUsers,
     status : {"pending"}, sent_at : {<<>>}, retry_count : {0},
     max_retries : {<<>>, <<1>>, <<2>>}, failure_reason : {""},
     attempts : {0}, delivered : {0}]

InitDispatch ==
    /\ flow = "titles"
    /\ rows = {}
    /\ authUsers = {}
    /\ profiles = {}
    /\ applicants = DispatchApplicants
    /\ blobs = {}
    /\ documents = <<>>
    /\ ev = NoEvent
    /\ faultCount = 0
    /\ manager = "upsert"
    /\ now = 0
    /\ inCall = [p \in Callers |-> Idle]
    /\ ret = NoCall
    /\ call = NoHelper
    /\ roleProfiles = {}
    /\ \E first \in Queued("n1"), second \in Queued("n2") :
         notifications = {first, second}

NextDispatch == DispatchRun

SpecDispatch == InitDispatch /\ [][NextDispatch]_vars

-----------------------------------------------------------------------------
(* Observations used by the properties                                     *)

\* the step and the payload the next event will be routed on
StoredStep == CurrentStateOf(ReadState("none"))

StoredData == StateDataOf(ReadState("none"))

\* text.toLowerCase().trim() === word
IsWord(text, word) == trim(toLowerCase(text)) = word

\* the applicant profiles of the modelled sender
RegisteredApplicants == {a \in applicants : a.whatsapp_number = From}

\* the registration steps that follow APPLICANT_REG_ID_NUMBER
StepsAfterIdNumber ==
    {"APPLICANT_REG_ID_UPLOAD", "APPLICANT_REG_SELFIE", "APPLICANT_REG_EMAIL",
     "APPLICANT_REG_LOCATION", "APPLICANT_REG_ADDRESS",
     "APPLICANT_REG_SELECTING_CATEGORY", "APPLICANT_REG_SELECTING_TITLE",
     "APPLICANT_REG_SELECTING_LEVEL"} \cup UploadStates

\* the steps of the "titles" registration in the order the handlers write them
ApplicantSteps ==
    <<"APPLICANT_REG_ID_NUMBER", "APPLICANT_REG_ID_UPLOAD", "APPLICANT_REG_SELFIE",
      "APPLICANT_REG_EMAIL", "APPLICANT_REG_LOCATION",
      "APPLICANT_REG_SELECTING_CATEGORY", "APPLICANT_REG_SELECTING_TITLE",
      "UPLOADING_REQUIRED_DOCS">>

\* step b is the one that follows step a in the registration
FollowsInOrder(a, b) ==
    \E i \in 1..(Len(ApplicantSteps) - 1) :
        ApplicantSteps[i] = a /\ ApplicantSteps[i + 1] = b

\* the event was a text that is one of the global keywords hi, hello, menu
IsGlobalKeyword(e) ==
    /\ e.kind = "text"
    /\ IsWord(e.text, W_hi) \/ IsWord(e.text, W_hello) \/ IsWord(e.text, W_menu)

\* the checklist of a job title: its required_certificates in the order the
\* catalog declares them, without 'ID Document'
ChecklistOf(titleId) ==
    LET job == JOB_TITLES[CHOOSE i \in 1..Len(JOB_TITLES) : JOB_TITLES[i].id = titleId]
    IN SelectSeq(job.required_certificates, LAMBDA doc : doc # "ID Document")

\* s is what is left of t after some of its first elements were taken off
IsSuffix(s, t) ==
    Len(s) <= Len(t) /\ s = SubSeq(t, Len(t) - Len(s) + 1, Len(t))

\* the keys of an ordered object occur in list t, in the order of t
KeysFollow(obj, t) ==
    /\ \A i \in 1..Len(obj) : \E k \in 1..Len(t) : t[k] = obj[i].key
    /\ \A i, j \in 1..Len(obj) :
          i < j => \E k, l \in 1..Len(t) :
                      k < l /\ t[k] = obj[i].key /\ t[l] = obj[j].key

\* the messages of an event that name the document to upload next
DocumentPrompts(e) ==
    {e.sent[i] : i \in {k \in 1..Len(e.sent) :
        e.sent[k].tag \in {"required_documents", "received_next", "skipped_next"}}}

\* the messages a handler sends after it wrote a step: the prompt of the step
\* the session is in from then on
NextStepPrompts ==
    {"consent_prompt", "id_number_prompt", "upload_id_prompt", "selfie_prompt",
     "email_prompt", "location_prompt", "address_prompt", "category_list",
     "level_list", "title_list", "required_documents", "received_next",
     "skipped_next", "returning_menu", "thank_you", "registration_complete",
     "menu_buttons"}

\* the tags of the messages an event sent
SentTags(e) == {e.sent[i].tag : i \in 1..Len(e.sent)}

\* the steps an event wrote to the session store
WrittenSteps(e) == {e.writes[i] : i \in 1..Len(e.writes)}

\* the steps from the ID number to the last document: the part of a
\* registration in which the payload is collected
CollectingSteps == {"APPLICANT_REG_ID_NUMBER"} \cup StepsAfterIdNumber

\* every key of old other than the given ones is in new with the same value,
\* and the given ones are not removed
KeepsPayload(old, new, updatable) ==
    /\ DOMAIN old \subseteq DOMAIN new
    /\ \A k \in DOMAIN old \ updatable : new[k] = old[k]

\* the entries of ev.ops that are side effects of a transition: the
\* transactional email, the media download, the creation of a record
\* (identity, profiles, document records) and the blob upload
SideEffects == {"email", "download", "record", "upload"}

-----------------------------------------------------------------------------
(* Properties                                                              *)

\* C1: while no collaborator call has failed, a 'skip' in a document
\* collection step with more than one pending document removes exactly the
\* head of the queue, keeps the step and does not start finalization; a 'skip'
\* on the last pending document starts completeApplicantRegistration exactly
\* once, which succeeds and leaves the session in IDLE with no pending
\* document; and once the sender has an applicant profile the session is
\* never in a document collection step again.
C1_SkipDrainsQueue ==
    [][faultCount' = 0 =>
         /\ (ev'.kind = "text" /\ IsWord(ev'.text, W_skip) /\ ev'.state \in UploadStates) =>
              IF Len(PendingOf(StoredData)) > 1
              THEN /\ ev'.runs = 0
                   /\ StoredStep' = StoredStep
                   /\ PendingOf(StoredData') = Tail(PendingOf(StoredData))
              ELSE /\ ev'.runs = 1
                   /\ ev'.outcome = "ok"
                   /\ StoredStep' = "IDLE"
                   /\ PendingOf(StoredData') = <<>>
         /\ RegisteredApplicants # {} => StoredStep' \notin UploadStates]_vars

\* the fourth 'skip' of a semi-skilled applicant: the queue went from three
\* documents to none by skips alone and finalization ran once
C1_Witness ==
    /\ flow = "levels"
    /\ faultCount = 0
    /\ ev.kind = "text" /\ IsWord(ev.text, W_skip)
    /\ ev.state = "UPLOADING_SEMI_SKILLED_DOCS"
    /\ PendingOf(ev.payload) = <<"Medical Certificate">>
    /\ UploadedOf(ev.payload) = <<>>
    /\ ev.runs = 1 /\ ev.outcome = "ok"
    /\ StoredStep = "IDLE"

\* C2: every finalization run in which no collaborator call is made to fail,
\* a first one or a repeated one, finishes without error and leaves exactly
\* one identity, one base profile and one applicant profile for the sender.
C2_RepeatedRunReusesIdentity ==
    (ev.runs = 1 /\ ev.fault = "none") =>
        /\ ev.outcome = "ok"
        /\ Cardinality({u \in authUsers : u.phone = From}) = 1
        /\ Cardinality(profiles) = 1
        /\ Cardinality(RegisteredApplicants) = 1

\* C3: a finalization run in which no collaborator call is made to fail, also
\* one that follows a run that failed after the identity was created, ends
\* with the session in IDLE and applicant_id in the payload.
C3_RetryCompletes ==
    (ev.runs = 1 /\ ev.fault = "none") =>
        /\ StoredStep = "IDLE"
        /\ Has(StoredData, "applicant_id")

\* C4: when a run of completeApplicantRegistration ends in its failure
\* branch, the session is still there, its step is not IDLE and every key of
\* the payload has the value it had before the event.
C4_FailureKeepsSession ==
    [][(ev'.runs = 1 /\ ev'.outcome = "failed") =>
         /\ Matching(rows', From) # {}
         /\ StoredStep' # "IDLE"
         /\ \A k \in DOMAIN StoredData :
                Has(StoredData', k) /\ StoredData'[k] = StoredData[k]]_vars

C7_LinkFailureAborts ==
    ev.fault = "docs" =>
        /\ StoredStep # "IDLE"
        /\ "registration_complete" \notin SentTags(ev)

\* C8: selecting a job title whose required list is empty once 'ID Document'
\* is removed starts completeApplicantRegistration in the same event, and
\* the event never writes the step UPLOADING_REQUIRED_DOCS.
C8_NoUploadStepForHelper ==
    (/\ ev.kind = "interactive"
     /\ ev.state = "APPLICANT_REG_SELECTING_TITLE"
     /\ ev.fault = "none"
     /\ \E i \in 1..Len(JOB_TITLES) :
            /\ JOB_TITLES[i].id = ev.button
            /\ SelectSeq(JOB_TITLES[i].required_certificates, IsNotIdDocument) = <<>>)
    => /\ ev.runs = 1
       /\ "UPLOADING_REQUIRED_DOCS" \notin WrittenSteps(ev)

\* C9: whenever the stored step is APPLICANT_REG_ID_UPLOAD or a later
\* registration step, the payload holds an id_number that passes
\* isValidSAIDNumber and home_affairs_verified = TRUE; and the session leaves
\* APPLICANT_REG_ID_NUMBER for APPLICANT_REG_ID_UPLOAD only on a text whose
\* whitespace-stripped form is a valid ID number, which it then stores.
C9_VerifiedBeforeUpload ==
    [][/\ StoredStep' \in StepsAfterIdNumber =>
            /\ Has(StoredData', "id_number")
            /\ isValidSAIDNumber(StoredData'.id_number)
            /\ Has(StoredData', "home_affairs_verified")
            /\ StoredData'.home_affairs_verified = TRUE
       /\ (StoredStep = "APPLICANT_REG_ID_NUMBER"
           /\ StoredStep' = "APPLICANT_REG_ID_UPLOAD") =>
            /\ ev'.kind = "text"
            /\ StoredData'.id_number = StripWhitespace(ev'.text)
       /\ (ev'.state = "APPLICANT_REG_ID_NUMBER" /\ ev'.kind = "text"
           /\ ev'.text = T_ValidId /\ ev'.fault = "none") =>
            StoredStep' = "APPLICANT_REG_ID_UPLOAD"]_vars

\* 'hi', consent accepted, a valid ID number: the session is in
\* APPLICANT_REG_ID_UPLOAD with the number stored
C9_Witness ==
    /\ flow = "titles"
    /\ ev.kind = "text" /\ ev.text = T_ValidId
    /\ ev.state = "APPLICANT_REG_ID_NUMBER"
    /\ StoredStep = "APPLICANT_REG_ID_UPLOAD"
    /\ StoredData.id_number = StripWhitespace(T_ValidId)
    /\ StoredData.home_affairs_verified = TRUE

C11_MismatchReprompts ==
    [][(/\ ev'.fault = "none"
        /\ \/ /\ ev'.kind = "text"
              /\ ev'.state \in {"APPLICANT_REG_ID_UPLOAD", "APPLICANT_REG_SELFIE"}
              /\ trim(toLowerCase(ev'.text)) \notin {W_hi, W_hello, W_menu, W_help}
           \/ /\ ev'.kind \in {"media", "location"}
              /\ ev'.state \in {"APPLICANT_REG_ID_NUMBER", "APPLICANT_REG_EMAIL"}
           \/ /\ ev'.kind = "interactive"
              /\ ev'.state \in {"APPLICANT_REG_ID_NUMBER", "APPLICANT_REG_ID_UPLOAD",
                                "APPLICANT_REG_SELFIE", "APPLICANT_REG_EMAIL",
                                "APPLICANT_REG_LOCATION", "APPLICANT_REG_ADDRESS"}
                               \cup UploadStates
           \/ /\ ev'.kind = "interactive"
              /\ ev'.button = "unknown_reply"
              /\ ev'.state \in {"APPLICANT_REG_CONSENT",
                                "APPLICANT_REG_SELECTING_CATEGORY",
                                "APPLICANT_REG_SELECTING_TITLE",
                                "APPLICANT_REG_SELECTING_LEVEL"})
       => /\ ev'.sent # <<>>
          /\ rows' = rows
          /\ ~ev'.thrown]_vars

C13_ConsentAcceptOrDecline ==
    [][(/\ ev'.kind = "interactive"
        /\ ev'.state = "APPLICANT_REG_CONSENT"
        /\ ev'.fault = "none") =>
         /\ ev'.button = "consent_yes" =>
              /\ StoredStep' = "APPLICANT_REG_ID_NUMBER"
              /\ SentTags(ev') = {"id_number_prompt"}
         /\ ev'.button = "consent_no" =>
              /\ Matching(rows', From) # {}
              /\ StoredStep' = "IDLE"
              /\ StoredData' = EmptyData
              /\ ev'.writes = <<"IDLE">>]_vars

\* consent was declined: the session went from APPLICANT_REG_CONSENT to IDLE
C13_Witness ==
    /\ ev.kind = "interactive" /\ ev.button = "consent_no"
    /\ ev.state = "APPLICANT_REG_CONSENT"
    /\ ev.fault = "none"
    /\ StoredStep = "IDLE"
    /\ StoredData = EmptyData
    /\ SentTags(ev) = {"thank_you"}

\* C14: an event in which the media download failed writes nothing to the
\* session store (the step, pending_documents and uploaded_documents are as
\* before), starts no finalization, stores no blob and answers with the
\* upload-failed message only.
C14_DownloadFailureKeepsQueue ==
    [][ev'.fault = "download" =>
         /\ ev'.kind = "media"
         /\ ev'.state \in {"APPLICANT_REG_ID_UPLOAD", "APPLICANT_REG_SELFIE"} \cup UploadStates
         /\ rows' = rows
         /\ StoredStep' = ev'.state
         /\ PendingOf(StoredData') = PendingOf(StoredData)
         /\ UploadedOf(StoredData') = UploadedOf(StoredData)
         /\ ev'.writes = <<>>
         /\ ev'.runs = 0
         /\ blobs' = blobs /\ documents' = documents
         /\ SentTags(ev') = {"upload_failed"}
         /\ ~ev'.thrown]_vars

\* the download of the second checklist document failed: one document is
\* staged, the failed one is still at the head of the queue
C14_Witness ==
    /\ ev.fault = "download"
    /\ ev.kind = "media"
    /\ ev.state \in UploadStates
    /\ StoredStep = ev.state
    /\ Len(UploadedOf(StoredData)) = 1
    /\ PendingOf(StoredData) # <<>>
    /\ SentTags(ev) = {"upload_failed"}

C16_RegisteredNeverReenters ==
    [][(ev.runs = 1 /\ ev.outcome = "ok") =>
         /\ StoredStep' \notin {"APPLICANT_REG_CONSENT", "APPLICANT_REG_ID_NUMBER"}
                               \cup StepsAfterIdNumber
         /\ authUsers' = authUsers
         /\ (ev'.kind = "text" /\ ~ev'.thrown
             /\ trim(toLowerCase(ev'.text)) \in {W_hi, W_hello, W_menu}) =>
               /\ StoredStep' = "IDLE"
               /\ "returning_menu" \in SentTags(ev')]_vars

\* C17 as stated: after a run of completeApplicantRegistration that
\* succeeded, the stored step is IDLE and applicant_id is the only key of the
\* stored payload.
C17_OnlyApplicantIdRetained ==
    (ev.runs = 1 /\ ev.outcome = "ok") =>
        /\ StoredStep = "IDLE"
        /\ DOMAIN StoredData = {"applicant_id"}

\* C17: after a run of completeApplicantRegistration that succeeded, the
\* stored step is IDLE and the stored payload is exactly {applicant_id,
\* user_type}, with the id of the new applicant profile and user_type
\* 'applicant': no key of the payload the run received remains in it.
C17_OnlyIdAndUserTypeRetained ==
    (ev.runs = 1 /\ ev.outcome = "ok") =>
        /\ StoredStep = "IDLE"
        /\ DOMAIN StoredData = {"applicant_id", "user_type"}
        /\ \E a \in RegisteredApplicants : StoredData.applicant_id = a.id
        /\ StoredData.user_type = "applicant"
        /\ DOMAIN StoredData \cap DOMAIN ev.payload = {}

\* finalization succeeded on a payload with registration fields, a staged ID
\* document and staged checklist documents; none of them is left in the session
C17_Witness ==
    /\ ev.runs = 1 /\ ev.outcome = "ok"
    /\ {"id_number", "email", "id_document", "uploaded_documents"} \subseteq DOMAIN ev.payload
    /\ UploadedOf(ev.payload) # <<>>
    /\ StoredStep = "IDLE"
    /\ DOMAIN StoredData = {"applicant_id", "user_type"}

\* C18: a run of completeApplicantRegistration in which sending the welcome
\* email failed ends in success: the identity, the base profile and the
\* applicant profile of the sender exist, every staged document with content
\* has its DocumentRecord, the session is IDLE with the new applicant_id,
\* the registration-complete message was sent and the failure message was
\* not; no welcome email is recorded as sent.
C18_WelcomeEmailFailureIgnored ==
    (ev.runs = 1 /\ ev.fault = "email") =>
        /\ ev.outcome = "ok"
        /\ ~ev.thrown
        /\ \E a \in RegisteredApplicants :
              /\ \E q \in profiles : q.id = a.id
              /\ \E u \in authUsers : u.id = a.id /\ u.phone = From
              /\ StoredData = [applicant_id |-> a.id, user_type |-> "applicant"]
        /\ Len(documents) >= 1
        /\ \A i \in 1..Len(UploadedOf(ev.payload)) :
              \E j \in 1..Len(documents) :
                  documents[j].document_name = UploadedOf(ev.payload)[i].key
        /\ StoredStep = "IDLE"
        /\ "registration_complete" \in SentTags(ev)
        /\ "registration_failed" \notin SentTags(ev)
        /\ ev.emails = <<>>

\* the welcome email of a run with a staged checklist document failed
C18_Witness ==
    /\ ev.runs = 1 /\ ev.fault = "email"
    /\ UploadedOf(ev.payload) # <<>>
    /\ ev.outcome = "ok"
    /\ StoredStep = "IDLE"
    /\ SentTags(ev) = {"registration_complete", "menu_buttons"}

C20_UpdateReplacesAndRefreshes ==
    [][(/\ ret' # ret
        /\ ret'.op = "updateConversationState"
        /\ ~ret'.error
        /\ ~ret'.overlapped) =>
         LET m == Matching(rows', ret'.whatsapp_number) IN
         /\ Cardinality(m) = 1
         /\ \A r \in m :
               /\ r.current_state = ret'.newState
               /\ r.data = ret'.data
               /\ r.last_message_at = now']_vars

-----------------------------------------------------------------------------
\* C21: an updateStateData(u, d) whose read was answered and that no other
\* call overlapped leaves one row for u; the row keeps the step u had and its
\* payload holds every key of d with d's value and every other key of the
\* previous payload with its previous value, and nothing else; when u had no
\* row the new row is at IDLE with payload d.
C21_MergeKeepsStep ==
    [][\A p \in Callers :
          (/\ inCall[p].pc = "merge"
           /\ inCall'[p] = Idle
           /\ inCall[p].fault = "none"
           /\ ~ret'.overlapped) =>
             LET u == inCall[p].whatsapp_number
                 d == inCall[p].newData
                 before == Matching(rows, u)
                 after == Matching(rows', u)
             IN /\ Cardinality(after) = 1
                /\ \A r \in after :
                      IF before = {}
                      THEN r.current_state = "IDLE" /\ r.data = d
                      ELSE \A b \in before :
                              /\ r.current_state = b.current_state
                              /\ DOMAIN r.data = DOMAIN b.data \cup DOMAIN d
                              /\ \A k \in DOMAIN d : r.data[k] = d[k]
                              /\ \A k \in DOMAIN b.data \ DOMAIN d :
                                    r.data[k] = b.data[k]]_vars

\* an updateStateData has returned at a step other than IDLE: it replaced the
\* value of a key the payload held, added a key it lacked and kept a third
C21_Witness ==
    /\ ret.op = "updateStateData"
    /\ ~ret.overlapped
    /\ ret.newState = "APPLICANT_REG_EMAIL"
    /\ \E r \in Matching(rows, From) :
          /\ r.current_state = "APPLICANT_REG_EMAIL"
          /\ DOMAIN r.data = {"email", "first_name", "location"}
          /\ r.data.email = "n@ma.za"
          /\ r.data.first_name = "Thabo"
          /\ r.data.location = "Jhb"

-----------------------------------------------------------------------------
\* C22: an inbound event whose session read returns an error is aborted: an
\* exception reaches POST, and the stored step and payload stay as they were.
C22_ReadErrorAborts ==
    [][ev'.fault = "read" => (ev'.thrown /\ rows' = rows)]_vars

-----------------------------------------------------------------------------
\* C23: formatPhoneNumber is idempotent: applied to its own result it returns
\* that result.
C23_FormatIdempotent ==
    call.fn = "formatPhoneNumber" => call.again = call.output

\* the function was applied to a number it rewrites twice over: the leading 0
\* becomes 27 and what follows already starts with 27
C23_Witness ==
    /\ call.fn = "formatPhoneNumber"
    /\ call.input = <<"0", "2", "7", "+">>
    /\ call.output = <<"2", "7", "2", "7">>
    /\ call.again = call.output

-----------------------------------------------------------------------------
\* C24: of an input that holds exactly 13 digits once its whitespace is
\* removed, isValidSAIDNumber returns false when the Luhn sum (from the right,
\* every second digit doubled and reduced by 9 when above 9) is not 0 mod 10,
\* and true when the month is in 1..12, the day is a day of that month and the
\* sum is 0 mod 10; every other input is rejected.
C24_IdNumberValidation ==
    call.fn = "isValidSAIDNumber" =>
        LET cleaned == SelectSeq(call.input, NotSpace)
            d(i) == DigitVal(cleaned[i])
            r(x) == IF 2 * x > 9 THEN 2 * x - 9 ELSE 2 * x
            sum == d(13) + r(d(12)) + d(11) + r(d(10)) + d(9) + r(d(8)) + d(7)
                   + r(d(6)) + d(5) + r(d(4)) + d(3) + r(d(2)) + d(1)
            month == 10 * d(3) + d(4)
            day == 10 * d(5) + d(6)
            lastDay == IF month = 2 THEN 29
                       ELSE IF month \in {4, 6, 9, 11} THEN 30 ELSE 31
        IN IF Len(cleaned) = 13 /\ \A i \in 1..13 : cleaned[i] \in Digits
           THEN /\ sum % 10 # 0 => ~call.output
                /\ (month \in 1..12 /\ day \in 1..lastDay /\ sum % 10 = 0)
                      => call.output
           ELSE ~call.output

\* a number with a month, a day of that month and a check digit that fits,
\* typed with a space in it, was given to the function and accepted
C24_Witness ==
    /\ call.fn = "isValidSAIDNumber"
    /\ call.input = T_ValidId
    /\ call.output

-----------------------------------------------------------------------------
\* C25: getDocumentTypeEnum returns 'other' for every label that is not a key
\* of its mapping table, and a code of the table for a label that is.
C25_UnlistedLabelIsOther ==
    call.fn = "getDocumentTypeEnum" =>
        LET table == IF call.generation = "titles" THEN MappingLabels
                     ELSE MappingLabelsLevels
        IN IF call.input \in table
           THEN call.output \notin {"other", InheritedMember}
           ELSE call.output = "other"

-----------------------------------------------------------------------------
\* C26: the rows handleCategorySelection hands to sendInteractiveList are the
\* first 10 jobs at most; a title of more than 24 characters appears as its
\* first 21 characters followed by three dots (24 characters), a title of 24
\* characters or fewer appears unchanged; sendInteractiveList rejects the list
\* neither for a row title nor for the number of rows.
C26_RowsFitTheList ==
    call.fn = "handleCategorySelection" =>
        /\ Len(call.rows) <= 10
        /\ Len(call.rows) = Len(call.titles) \/ Len(call.rows) = 10
        /\ \A i \in 1..Len(call.rows) :
              LET title == call.titles[i]
                  shown == call.rows[i].title
              IN IF Len(title) > 24
                 THEN /\ Len(shown) = 24
                      /\ \A k \in 1..21 : shown[k] = title[k]
                      /\ \A k \in 22..24 : shown[k] = "."
                 ELSE shown = title
        /\ ~call.rejected

\* a category of 11 jobs whose titles have exactly 25 characters was turned
\* into 10 rows of 24 characters
C26_Witness ==
    /\ call.fn = "handleCategorySelection"
    /\ Len(call.titles) = 11
    /\ Len(call.titles[1]) = 25
    /\ Len(call.rows) = 10
    /\ Len(call.rows[1].title) = 24
    /\ ~call.rejected

-----------------------------------------------------------------------------
\* C27 as stated: in the "titles" flow the stored step changes only to the
\* step that follows it in ID_NUMBER, ID_UPLOAD, SELFIE, EMAIL, LOCATION,
\* SELECTING_CATEGORY, SELECTING_TITLE, UPLOADING_REQUIRED_DOCS, or by a global
\* keyword, by the consent decline, or to IDLE at the end of a finalization.
C27_StepsInOrderOnly ==
    [][(flow = "titles" /\ StoredStep' # StoredStep) =>
         \/ FollowsInOrder(StoredStep, StoredStep')
         \/ IsGlobalKeyword(ev') /\ StoredStep' \in {"APPLICANT_REG_CONSENT", "IDLE"}
         \/ StoredStep = "APPLICANT_REG_CONSENT" /\ ev'.button = "consent_no"
              /\ StoredStep' = "IDLE"
         \/ ev'.runs > 0 /\ StoredStep' = "IDLE"]_vars

\* C27: as above, and the consent acceptance, which takes the session from
\* APPLICANT_REG_CONSENT to APPLICANT_REG_ID_NUMBER; no event moves a session
\* to a later step of the registration while skipping one in between.
C27_StepsInOrder ==
    [][(flow = "titles" /\ StoredStep' # StoredStep) =>
         \/ FollowsInOrder(StoredStep, StoredStep')
         \/ IsGlobalKeyword(ev') /\ StoredStep' \in {"APPLICANT_REG_CONSENT", "IDLE"}
         \/ StoredStep = "APPLICANT_REG_CONSENT" /\ ev'.button = "consent_no"
              /\ StoredStep' = "IDLE"
         \/ StoredStep = "APPLICANT_REG_CONSENT" /\ ev'.button = "consent_yes"
              /\ StoredStep' = "APPLICANT_REG_ID_NUMBER"
         \/ ev'.runs > 0 /\ StoredStep' = "IDLE"]_vars

\* a session has reached the last step of the registration, with a document
\* still to collect, through an event that took it there from the title list
C27_Witness ==
    /\ flow = "titles"
    /\ StoredStep = "UPLOADING_REQUIRED_DOCS"
    /\ ev.state = "APPLICANT_REG_SELECTING_TITLE"
    /\ PendingOf(StoredData) # <<>>
    /\ Has(StoredData, "location") /\ Has(StoredData, "email")
    /\ Has(StoredData, "selfie") /\ Has(StoredData, "id_number")

-----------------------------------------------------------------------------
\* C28: whenever the session is in UPLOADING_REQUIRED_DOCS, pending_documents
\* is a suffix of the checklist of the selected title; a message that names
\* the document to upload next names the head of the stored pending_documents;
\* a media event that finds a pending document and meets no failure stages its
\* content under the head of pending_documents, in the stored payload when
\* documents remain and in the payload handed to the finalization when it was
\* the last; and the staged documents lie in checklist order.
C28_StagedInChecklistOrder ==
    /\ [](flow = "titles" /\ StoredStep = "UPLOADING_REQUIRED_DOCS" =>
            /\ Has(StoredData, "selected_title_id")
            /\ IsSuffix(PendingOf(StoredData), ChecklistOf(StoredData.selected_title_id))
            /\ KeysFollow(UploadedOf(StoredData), ChecklistOf(StoredData.selected_title_id)))
    /\ [][flow = "titles" =>
            /\ \A m \in DocumentPrompts(ev') :
                  /\ StoredStep' = "UPLOADING_REQUIRED_DOCS"
                  /\ PendingOf(StoredData') # <<>>
                  /\ m.arg = Head(PendingOf(StoredData'))
            /\ (/\ ev'.kind = "media"
                /\ ev'.media # NoMediaId
                /\ ev'.state = "UPLOADING_REQUIRED_DOCS"
                /\ ev'.fault = "none"
                /\ PendingOf(StoredData) # <<>>) =>
                  LET head == Head(PendingOf(StoredData))
                      staged == IF Len(PendingOf(StoredData)) > 1
                                THEN UploadedOf(StoredData')
                                ELSE UploadedOf(ev'.payload)
                  IN /\ staged = ObjSet(UploadedOf(StoredData), head,
                                        downloadDocumentAsBase64(ev'.media, head))
                     /\ KeysFollow(staged, ChecklistOf(StoredData.selected_title_id))
                     /\ IF Len(PendingOf(StoredData)) > 1
                        THEN PendingOf(StoredData') = Tail(PendingOf(StoredData))
                        ELSE ev'.runs = 1]_vars

\* a media event has staged the first document of a two-document checklist:
\* the second one is pending and is the one the prompt names
C28_Witness ==
    /\ flow = "titles"
    /\ StoredStep = "UPLOADING_REQUIRED_DOCS"
    /\ ev.kind = "media"
    /\ ev.state = "UPLOADING_REQUIRED_DOCS"
    /\ StoredData.selected_title_id = "9b157f2f"
    /\ PendingOf(StoredData) = <<"Medical Certificate">>
    /\ Keys(UploadedOf(StoredData)) = {"Drill Operator Certificate"}
    /\ Msg("received_next", "Medical Certificate") \in DocumentPrompts(ev)

-----------------------------------------------------------------------------
\* C29: an event during which updateConversationState fails leaves the session
\* as the last write that succeeded left it (as it was before the event when
\* none did) and sends no prompt of a next step; the event that follows is
\* routed on that stored step.
C29_WriteFailureAborts ==
    [][/\ ev'.fault \in {"write", "reset"} =>
            /\ IF ev'.writes = <<>>
               THEN rows' = rows
               ELSE StoredStep' = ev'.writes[Len(ev'.writes)]
            /\ SentTags(ev') \cap NextStepPrompts = {}
       /\ (ev.fault \in {"write", "reset"} /\ ev'.fault # "read") =>
            ev'.state = StoredStep]_vars

\* the write of handleApplicantRegIDNumber failed on a valid ID number: the
\* session is still in APPLICANT_REG_ID_NUMBER and nothing was sent
C29_Witness ==
    /\ ev.fault = "write"
    /\ ev.thrown
    /\ ev.kind = "text"
    /\ ev.text = T_ValidId
    /\ ev.state = "APPLICANT_REG_ID_NUMBER"
    /\ ev.sent = <<>>
    /\ StoredStep = "APPLICANT_REG_ID_NUMBER"
    /\ ~Has(StoredData, "id_number")

-----------------------------------------------------------------------------
\* C30: an inbound event from a user who has a session leaves that session
\* with last_message_at equal to the time of the event, also when the event
\* only re-prompts; and a session disappears only when its user's last event
\* is at least as old as one of the retention windows offered to
\* cleanupOldStates.
C30_EveryEventRefreshes ==
    [][/\ (ev' # ev /\ Matching(rows, From) # {}) =>
            /\ Matching(rows', From) # {}
            /\ \A r \in Matching(rows', From) : r.last_message_at = now'
       /\ (Matching(rows, From) # {} /\ Matching(rows', From) = {}) =>
            \E daysOld \in DaysOldChoices : ev.at <= now - daysOld]_vars

-----------------------------------------------------------------------------
-----------------------------------------------------------------------------
\* C32: the processing of an inbound event reads the session first and once,
\* performs the side effects of the transition next and writes the session
\* back after them: no side effect follows a write of the session.
C32_ReadEffectsWrite ==
    ev.kind # "none" =>
        /\ ev.ops # <<>>
        /\ ev.ops[1] = "read"
        /\ \A i \in 2..Len(ev.ops) : ev.ops[i] # "read"
        /\ \A i, j \in 1..Len(ev.ops) :
              (i < j /\ ev.ops[i] = "write") => ev.ops[j] \notin SideEffects

-----------------------------------------------------------------------------
\* C33: when a finalization has failed and the user then types 'MENU', as the
\* failure message asks, the session afterwards is still in its document
\* collection step and still holds every key and value of the payload the
\* failed finalization was given, so that the finalization can run again
\* from it.
C33_MenuAfterFailureKeepsPayload ==
    [][(/\ ev.outcome = "failed"
        /\ Msg("registration_failed", "") \in {ev.sent[i] : i \in 1..Len(ev.sent)}
        /\ ev'.kind = "text"
        /\ IsWord(ev'.text, W_menu)
        /\ ev'.fault = "none") =>
          /\ StoredStep' \in UploadStates
          /\ KeepsPayload(ev.payload, StoredData', {})]_vars

-----------------------------------------------------------------------------
\* C34: a verification step that is given the correct code for a contact that
\* already has an auth user, and meets no failing collaborator, creates no
\* second auth user, base profile or role profile, ends with the session at
\* IDLE holding only userId and userType of that user, and sends no failure
\* message.
C34_CheckThenCreate ==
    [][(/\ ev' # ev
        /\ ev'.state \in {"CLIENT_REG_VERIFICATION", "PROVIDER_REG_VERIFICATION"}
        /\ trim(ev'.text) = StoredData.verification_code
        /\ ev'.fault = "none"
        /\ \E u \in authUsers : u.phone = From \/ u.email = StoredData.email) =>
          /\ authUsers' = authUsers
          /\ Cardinality(profiles') = 1
          /\ Cardinality(roleProfiles') = 1
          /\ StoredStep' = "IDLE"
          /\ DOMAIN StoredData' = {"userId", "userType"}
          /\ \E u \in authUsers : u.id = StoredData'.userId
          /\ "registration_failed_later" \notin SentTags(ev')]_vars

-----------------------------------------------------------------------------
\* C35: a verification step accepts the matching code only when it is entered
\* before verification_expires_at; from that time on the matching code is
\* rejected: nothing is created and the session stays in the verification
\* step with its payload.
C35_CodeExpires ==
    [][(/\ ev' # ev
        /\ ev'.state \in {"CLIENT_REG_VERIFICATION", "PROVIDER_REG_VERIFICATION"}
        /\ trim(ev'.text) = StoredData.verification_code
        /\ ~(now < StoredData.verification_expires_at)) =>
          /\ rows' = rows
          /\ authUsers' = authUsers
          /\ profiles' = profiles
          /\ roleProfiles' = roleProfiles
          /\ SentTags(ev') \cap {"welcome_back", "registration_complete"} = {}]_vars

-----------------------------------------------------------------------------
\* C36: an ID number of 13 digits that isValidSAIDNumber accepts is rejected
\* once exactly one of its digits is replaced by a different digit, and
\* isValidSAIDNumber gives the same answer every time it is given the same
\* digits.
C36_SingleDigitChangeRejected ==
    call.fn = "isValidSAIDNumberChanged" =>
        /\ call.output
        /\ call.again = call.output
        /\ ~call.changed

\* the day of birth of an accepted number was changed from 01 to 31, which
\* is a day the date check lets through: the checksum rejects the number
C36_Witness ==
    /\ call.fn = "isValidSAIDNumberChanged"
    /\ call.input = StripWhitespace(T_ValidId)
    /\ call.position = 5
    /\ call.digit = "3"
    /\ ~call.changed

-----------------------------------------------------------------------------
\* C37: in the "titles" flow every run of completeApplicantRegistration is
\* given a payload that holds the title selection (selected_title_id,
\* selected_title, selected_category), and the applicant profile it creates
\* carries the selected title as job_title_id, also for a title that requires
\* no further document.
C37_FinalizationKnowsTitle ==
    [][(flow = "titles" /\ ev' # ev /\ ev'.runs > 0) =>
          /\ {"selected_title_id", "selected_title", "selected_category"}
                \subseteq DOMAIN ev'.payload
          /\ \A a \in applicants' \ applicants :
                /\ a.job_title_id = ev'.payload.selected_title_id
                /\ ev'.button \in PickedTitles => a.job_title_id = ev'.button]_vars

-----------------------------------------------------------------------------
\* C38: the user receives 'Registration failed' only from a run of
\* completeApplicantRegistration that did not reset the session to IDLE and
\* did not complete the records: once the run has written IDLE, a message
\* that cannot be delivered does not make it send 'Registration failed'.
C38_FailureMessageOnlyBeforeReset ==
    [][(ev' # ev /\ "registration_failed" \in SentTags(ev')) =>
          /\ "IDLE" \notin WrittenSteps(ev')
          /\ StoredStep' # "IDLE"]_vars

-----------------------------------------------------------------------------
\* C39: a media event of a session in a document collection step that was
\* handled concurrently with another one (the session was written between its
\* read and its write) has the result of being processed after that other
\* event: the document it acknowledges as received is the head of the
\* pending_documents stored at that time, it is staged under that name with
\* the content of this event's file, the documents staged before stay as
\* they are, and pending_documents is one entry shorter than it was stored.
C39_ConcurrentAsSequential ==
    [][(/\ ev' # ev
        /\ ev'.kind = "media"
        /\ ev'.state \in UploadStates
        /\ ev'.stale
        /\ StoredStep \in UploadStates
        /\ PendingOf(StoredData) # <<>>
        /\ "received_next" \in SentTags(ev')) =>
          LET head == Head(PendingOf(StoredData))
          IN /\ PendingOf(StoredData') = Tail(PendingOf(StoredData))
             /\ UploadedOf(StoredData') =
                  ObjSet(UploadedOf(StoredData), head,
                         downloadDocumentAsBase64(ev'.media, head))]_vars


-----------------------------------------------------------------------------
\* C40: for every WhatsApp notification of the queue, sendTextMessage has
\* been called at most max_retries times (3 when the column is null), it has
\* returned at most once, and a notification whose send returned is in status
\* 'sent'; a notification in status 'sent' or 'failed' is not selected again.
C40_FinalAfterBoundedAttempts ==
    \A n \in notifications :
        n.channel = "whatsapp" =>
          /\ n.attempts <= (IF n.max_retries = <<>> THEN 3 ELSE n.max_retries[1])
          /\ n.delivered <= 1
          /\ n.delivered > 0 => n.status = "sent"
          /\ n.status \in {"sent", "failed"} => ~Selectable(n)

====
